---- MODULE Spec2Model ----
(***************************************************************************)
(* State-machine model of the stockex limit order book: the fixed-capacity *)
(* memory pool, the chunked order queue with a validity bitmap, the price  *)
(* levels in their circular doubly linked chain, and the order book with   *)
(* addOrder / removeOrder / match.                                         *)
(*                                                                         *)
(* Pointers are pool slot indices; nullptr is NULL.  Every public          *)
(* operation of the book is one action that runs the whole handler.        *)
(***************************************************************************)
EXTENDS Integers, Sequences, FiniteSets, TLC

(***************************************************************************)
(* Capacities and input domains.  The program's capacities are scaled down *)
(* so that the state space is finite and small.                            *)
(***************************************************************************)
MAX_PRICE_LEVELS == 4
MAX_MATCH_EVENTS == 2
MAX_NUM_CLIENTS == 1
ChunkSize == 2
\* OrderQueue::BitsPerWord, scaled down with ChunkSize
BitsPerWord == 2
ChunkPoolSize == 3
MaxOrderId == 2
MaxPrice == 3
MaxQty == 2
MaxOps == 4

INVALID == 0
BUY == 1
SELL == 2
\* Quantity is an unsigned integer type; its modulus is scaled down with MaxQty.
QuantityModulus == 16

NULL == 0 - 1
SIZE_MAX == 0 - 2

Clients == 0 .. (MAX_NUM_CLIENTS - 1)
OrderIds == 0 .. MaxOrderId
Prices == 1 .. MaxPrice
Sides == {BUY, SELL}
ChunkSlots == 0 .. (ChunkSize - 1)
\* the capacities of the chunk allocator that are explored
ChunkPoolSizes == {ChunkPoolSize - 1, ChunkPoolSize}

Min(S) == CHOOSE x \in S : \A y \in S : x <= y

Max(S) == CHOOSE x \in S : \A y \in S : x >= y

\* unsigned subtraction wraps
QtySub(a, b) == (a - b + QuantityModulus) % QuantityModulus

VARIABLES
  bestBid,       \* OrderBook::bestBid_  (price level slot or NULL)
  bestAsk,       \* OrderBook::bestAsk_
  priceLevels,   \* OrderBook::priceLevels_  (direct-address table)
  levels,        \* storage of priceLevelAllocator_ : slot -> PriceLevel
  levelPool,     \* bookkeeping of priceLevelAllocator_
  chunks,        \* storage of the chunk allocator : slot -> Chunk
  chunkPool,     \* bookkeeping of the chunk allocator
  clientOrders,  \* OrderBook::clientOrders_
  result,        \* the last match call and its MatchResultSet, while the set is valid
  nops,          \* the number of public calls made so far
  fifo,          \* history: per price index, the keys resting there in arrival order
  fatal          \* the process ended in utils::ASSERT

vars == <<bestBid, bestAsk, priceLevels, levels, levelPool, chunks, chunkPool,
          clientOrders, result, nops, fifo, fatal>>

(***************************************************************************)
(* utils::memory_pool                                                      *)
(***************************************************************************)
PoolInit(n) ==
  [is_free_ |-> [i \in 0 .. (n - 1) |-> TRUE],
   next_free_block_ |-> [i \in 0 .. (n - 1) |-> IF i < n - 1 THEN i + 1 ELSE SIZE_MAX],
   free_block_index_ |-> 0,
   free_block_count_ |-> n]

\* The two ASSERTs of alloc pass.
PoolCanAlloc(p) ==
  /\ p.free_block_count_ > 0
  /\ p.free_block_index_ \in DOMAIN p.is_free_
  /\ p.is_free_[p.free_block_index_]

PoolAlloc(p) ==
  [p EXCEPT !.is_free_[p.free_block_index_] = FALSE,
            !.free_block_index_ = p.next_free_block_[p.free_block_index_],
            !.free_block_count_ = @ - 1]

\* The two ASSERTs of free pass.
PoolCanFree(p, i) == i \in DOMAIN p.is_free_ /\ ~p.is_free_[i]

\* Bug variant of free: the block is not linked in front of the free list.
PoolFree_unlinked(p, i) ==
  [p EXCEPT !.is_free_[i] = TRUE,
            !.free_block_index_ = i,
            !.free_block_count_ = @ + 1]

\* Bug variant of free: the free count is not incremented.
PoolFree_uncounted(p, i) ==
  [p EXCEPT !.is_free_[i] = TRUE,
            !.next_free_block_[i] = p.free_block_index_,
            !.free_block_index_ = i]

PoolFree(p, i) ==
  [p EXCEPT !.is_free_[i] = TRUE,
            !.next_free_block_[i] = p.free_block_index_,
            !.free_block_index_ = i,
            !.free_block_count_ = @ + 1]

(***************************************************************************)
(* models::OrderQueue (validity-bitmap variant)                            *)
(* mem is the chunk allocator: [chunks, pool].                             *)
(***************************************************************************)
ZeroOrder == [orderId_ |-> 0, qty_ |-> 0, clientId_ |-> 0]

ZeroChunk ==
  [orders |-> [i \in ChunkSlots |-> ZeroOrder],
   validityBitmap |-> [i \in ChunkSlots |-> FALSE],
   highWaterMark |-> 0,
   next |-> NULL,
   prev |-> NULL]

ZeroQueue ==
  [headChunk_ |-> NULL, tailChunk_ |-> NULL, headOrderIndex_ |-> 0, totalSize_ |-> 0]

NullHandle == [chunk_ |-> NULL, index_ |-> 0]

allocateNewChunk(q, mem) ==
  LET c == mem.pool.free_block_index_
      fresh == [mem.chunks EXCEPT ![c] = ZeroChunk]
      pool2 == PoolAlloc(mem.pool)
  IN IF q.headChunk_ = NULL
     THEN [q |-> [q EXCEPT !.headChunk_ = c, !.tailChunk_ = c],
           mem |-> [chunks |-> fresh, pool |-> pool2]]
     ELSE [q |-> [q EXCEPT !.tailChunk_ = c],
           mem |-> [chunks |-> [fresh EXCEPT ![q.tailChunk_].next = c,
                                             ![c].prev = q.tailChunk_],
                    pool |-> pool2]]

\* OrderQueue::OrderQueue(allocator)
QueueNew(mem) == allocateNewChunk(ZeroQueue, mem)

\* push has to allocate a chunk first
pushNeedsChunk(q, mem) == mem.chunks[q.tailChunk_].highWaterMark >= ChunkSize

\* Bug variant of pushAtTail: the size is not incremented.
pushAtTail_uncounted(a, order) ==
  LET t == a.q.tailChunk_
      index == a.mem.chunks[t].highWaterMark
  IN [q |-> a.q,
      mem |-> [a.mem EXCEPT !.chunks[t].orders[index] = order,
                            !.chunks[t].validityBitmap[index] = TRUE,
                            !.chunks[t].highWaterMark = @ + 1],
      handle |-> [chunk_ |-> t, index_ |-> index]]

\* the order is written at the high-water mark of the tail chunk of a = [q, mem]
pushAtTail(a, order) ==
  LET t == a.q.tailChunk_
      index == a.mem.chunks[t].highWaterMark
  IN [q |-> [a.q EXCEPT !.totalSize_ = @ + 1],
      mem |-> [a.mem EXCEPT !.chunks[t].orders[index] = order,
                            !.chunks[t].validityBitmap[index] = TRUE,
                            !.chunks[t].highWaterMark = @ + 1],
      handle |-> [chunk_ |-> t, index_ |-> index]]

push(q, mem, order) ==
  pushAtTail(IF pushNeedsChunk(q, mem) THEN allocateNewChunk(q, mem)
                                       ELSE [q |-> q, mem |-> mem],
             order)

\* Bug variant of remove: a chunk whose last valid slot is cleared is freed.
remove_freesChunk(q, mem, handle) ==
  IF handle.chunk_ # NULL /\ mem.chunks[handle.chunk_].validityBitmap[handle.index_]
  THEN [q |-> [q EXCEPT !.totalSize_ = @ - 1],
        mem |-> [chunks |-> [mem.chunks EXCEPT
                               ![handle.chunk_].validityBitmap[handle.index_] = FALSE],
                 pool |-> IF \A i \in ChunkSlots :
                               i # handle.index_ =>
                                 ~mem.chunks[handle.chunk_].validityBitmap[i]
                          THEN PoolFree(mem.pool, handle.chunk_)
                          ELSE mem.pool]]
  ELSE [q |-> q, mem |-> mem]

\* Bug variant of remove: the validity bit is not tested.
remove_untested(q, mem, handle) ==
  IF handle.chunk_ # NULL
  THEN [q |-> [q EXCEPT !.totalSize_ = @ - 1],
        mem |-> [mem EXCEPT !.chunks[handle.chunk_].validityBitmap[handle.index_] = FALSE]]
  ELSE [q |-> q, mem |-> mem]

\* Bug variant of remove: the size is not decremented.
remove_uncounted(q, mem, handle) ==
  IF handle.chunk_ # NULL /\ mem.chunks[handle.chunk_].validityBitmap[handle.index_]
  THEN [q |-> q,
        mem |-> [mem EXCEPT !.chunks[handle.chunk_].validityBitmap[handle.index_] = FALSE]]
  ELSE [q |-> q, mem |-> mem]

\* Bug variant of remove: the whole bitmap word of the chunk is cleared.
remove_wholeWord(q, mem, handle) ==
  IF handle.chunk_ # NULL /\ mem.chunks[handle.chunk_].validityBitmap[handle.index_]
  THEN [q |-> [q EXCEPT !.totalSize_ = @ - 1],
        mem |-> [mem EXCEPT !.chunks[handle.chunk_].validityBitmap =
                              [i \in ChunkSlots |-> FALSE]]]
  ELSE [q |-> q, mem |-> mem]

remove(q, mem, handle) ==
  IF handle.chunk_ # NULL /\ mem.chunks[handle.chunk_].validityBitmap[handle.index_]
  THEN [q |-> [q EXCEPT !.totalSize_ = @ - 1],
        mem |-> [mem EXCEPT !.chunks[handle.chunk_].validityBitmap[handle.index_] = FALSE]]
  ELSE [q |-> q, mem |-> mem]

empty(q) == q.totalSize_ = 0

\* Bug variant of nextValidBit: the scan takes the highest set bit.
nextValidBit_highest(chunk, from) ==
  LET S == {i \in ChunkSlots : i >= from /\ chunk.validityBitmap[i]}
  IN IF S = {} THEN ChunkSize ELSE Max(S)

\* the lowest set bit at or above from, ChunkSize when there is none
nextValidBit(chunk, from) ==
  LET S == {i \in ChunkSlots : i >= from /\ chunk.validityBitmap[i]}
  IN IF S = {} THEN ChunkSize ELSE Min(S)

\* Bug variant of advanceHeadLoop: only the slot under the head cursor is
\* tested before the loop leaves the chunk.
RECURSIVE advanceHeadLoop_cursorOnly(_, _)
advanceHeadLoop_cursorOnly(q, mem) ==
  IF q.headChunk_ = NULL THEN [q |-> q, mem |-> mem]
  ELSE
    LET ch == mem.chunks[q.headChunk_]
    IN IF ch.validityBitmap[q.headOrderIndex_] /\ q.headOrderIndex_ < ch.highWaterMark
       THEN [q |-> q, mem |-> mem]
       ELSE IF q.headChunk_ = q.tailChunk_
       THEN [q |-> [q EXCEPT !.headChunk_ = NULL, !.tailChunk_ = NULL,
                             !.headOrderIndex_ = 0],
             mem |-> [mem EXCEPT !.pool = PoolFree(mem.pool, q.headChunk_)]]
       ELSE advanceHeadLoop_cursorOnly(
              [q EXCEPT !.headChunk_ = ch.next, !.headOrderIndex_ = 0],
              [mem EXCEPT !.pool = PoolFree(mem.pool, q.headChunk_)])

RECURSIVE advanceHeadLoop(_, _)
advanceHeadLoop(q, mem) ==
  IF q.headChunk_ = NULL THEN [q |-> q, mem |-> mem]
  ELSE
    LET ch == mem.chunks[q.headChunk_]
        found == nextValidBit(ch, q.headOrderIndex_)
    IN IF found < ChunkSize /\ found < ch.highWaterMark
       THEN [q |-> [q EXCEPT !.headOrderIndex_ = found], mem |-> mem]
       ELSE IF q.headChunk_ = q.tailChunk_
       THEN [q |-> [q EXCEPT !.headChunk_ = NULL, !.tailChunk_ = NULL,
                             !.headOrderIndex_ = 0],
             mem |-> [mem EXCEPT !.pool = PoolFree(mem.pool, q.headChunk_)]]
       ELSE advanceHeadLoop(
              [q EXCEPT !.headChunk_ = ch.next, !.headOrderIndex_ = 0],
              [mem EXCEPT !.pool = PoolFree(mem.pool, q.headChunk_)])

\* Bug variant of advanceHead: an empty queue is not left alone.
advanceHead_drains(q, mem) == advanceHeadLoop(q, mem)

advanceHead(q, mem) ==
  IF empty(q) THEN [q |-> q, mem |-> mem] ELSE advanceHeadLoop(q, mem)

\* front(): the queue after head advancement and the handle of the front order
frontAtHead(a) ==
  [q |-> a.q, mem |-> a.mem,
   handle |-> IF empty(a.q) THEN NullHandle
              ELSE [chunk_ |-> a.q.headChunk_, index_ |-> a.q.headOrderIndex_]]

front(q, mem) == frontAtHead(advanceHead(q, mem))

\* Bug variant of frontConstFrom: the scan does not go on to the next chunk.
frontConstFrom_headOnly(chs, currentChunk, currentIndex) ==
  IF currentChunk = NULL THEN NullHandle
  ELSE LET found == nextValidBit(chs[currentChunk], currentIndex)
       IN IF found < ChunkSize /\ found < chs[currentChunk].highWaterMark
          THEN [chunk_ |-> currentChunk, index_ |-> found]
          ELSE NullHandle

\* the scan of front() const from currentIndex of currentChunk: the handle
\* of the order it returns (NullHandle for nullptr)
RECURSIVE frontConstFrom(_, _, _)
frontConstFrom(chs, currentChunk, currentIndex) ==
  IF currentChunk = NULL THEN NullHandle
  ELSE LET found == nextValidBit(chs[currentChunk], currentIndex)
       IN IF found < ChunkSize /\ found < chs[currentChunk].highWaterMark
          THEN [chunk_ |-> currentChunk, index_ |-> found]
          ELSE frontConstFrom(chs, chs[currentChunk].next, 0)

\* front() const
frontConst(q, mem) ==
  IF empty(q) THEN NullHandle
  ELSE frontConstFrom(mem.chunks, q.headChunk_, q.headOrderIndex_)

\* the bits of a bitmap word that word &= (1ULL << n) - 1 keeps, as offsets.
\* n = BitsPerWord shifts by the width of the word, which is undefined: the
\* build either takes the count modulo the width (the mask is 0 and no bit is
\* kept, shiftWraps) or yields the full mask (every bit is kept).
keptBelow(n, shiftWraps) ==
  IF n < BitsPerWord THEN 0 .. (n - 1)
  ELSE IF shiftWraps THEN {} ELSE 0 .. (BitsPerWord - 1)

\* the inner loop of last(): the index found in the words of chunk from
\* wordIndex downward, NULL when the loop ends without a return
RECURSIVE lastInWords(_, _, _, _)
lastInWords(chunk, wordIndex, currentIndex, shiftWraps) ==
  IF wordIndex < 0 THEN NULL
  ELSE LET S == {i \in ChunkSlots :
                   /\ i \div BitsPerWord = wordIndex
                   /\ (i % BitsPerWord) \in keptBelow((currentIndex % BitsPerWord) + 1,
                                                      shiftWraps)
                   /\ chunk.validityBitmap[i]}
       IN IF S # {} THEN Max(S)
          ELSE lastInWords(chunk, wordIndex - 1,
                           (wordIndex - 1) * BitsPerWord + (BitsPerWord - 1), shiftWraps)

\* the outer loop of last() from currentChunk: the handle it returns.  The
\* prev links may lead through freed chunks and around a cycle; returns is
\* FALSE when the loop is still running after fuel chunks.
RECURSIVE lastFrom(_, _, _, _)
lastFrom(chs, currentChunk, shiftWraps, fuel) ==
  IF currentChunk = NULL THEN [handle |-> NullHandle, returns |-> TRUE]
  ELSE IF fuel = 0 THEN [handle |-> NullHandle, returns |-> FALSE]
  ELSE LET currentIndex == chs[currentChunk].highWaterMark - 1
           found == IF currentIndex < 0 THEN NULL
                    ELSE lastInWords(chs[currentChunk], currentIndex \div BitsPerWord,
                                     currentIndex, shiftWraps)
       IN IF found # NULL
          THEN [handle |-> [chunk_ |-> currentChunk, index_ |-> found], returns |-> TRUE]
          ELSE lastFrom(chs, chs[currentChunk].prev, shiftWraps, fuel - 1)

\* last() const: the handle of the order it returns (NullHandle for nullptr)
last(q, mem, shiftWraps) ==
  IF empty(q) THEN [handle |-> NullHandle, returns |-> TRUE]
  ELSE lastFrom(mem.chunks, q.tailChunk_, shiftWraps, 2 * ChunkPoolSize)

\* Bug variant of popAtHead: a pop that empties the queue releases its chunk.
popAtHead_releases(a) ==
  IF empty(a.q) THEN a
  ELSE LET r == remove(a.q, a.mem, [chunk_ |-> a.q.headChunk_, index_ |-> a.q.headOrderIndex_])
       IN IF empty(r.q) /\ r.q.headChunk_ = r.q.tailChunk_
          THEN [q |-> [r.q EXCEPT !.headChunk_ = NULL, !.tailChunk_ = NULL,
                                  !.headOrderIndex_ = 0],
                mem |-> [r.mem EXCEPT !.pool = PoolFree(r.mem.pool, a.q.headChunk_)]]
          ELSE r

\* pop() after head advancement: a = [q, mem]
popAtHead(a) ==
  IF empty(a.q) THEN a
  ELSE remove(a.q, a.mem, [chunk_ |-> a.q.headChunk_, index_ |-> a.q.headOrderIndex_])

pop(q, mem) == popAtHead(advanceHead(q, mem))

(***************************************************************************)
(* models::PriceLevel                                                      *)
(***************************************************************************)
ZeroLevel ==
  [side_ |-> INVALID, price_ |-> 0, orders |-> ZeroQueue, prev_ |-> NULL, next_ |-> NULL]

\* Bug variant of isMatchable: the comparison of the BUY side is used for both sides.
isMatchable_sideBlind(level, p) == level.price_ >= p

\* Bug variant of isMatchable: a level at the aggressor's own limit does not match.
isMatchable_strict(level, p) ==
  IF level.side_ = BUY THEN level.price_ > p ELSE level.price_ < p

isMatchable(level, p) ==
  IF level.side_ = BUY THEN level.price_ >= p ELSE level.price_ <= p

\* Bug variant of isBetter: the comparison of the BUY side is used for both sides.
isBetter_sideBlind(level, other) == level.price_ > other.price_

isBetter(level, other) ==
  IF level.side_ = BUY THEN level.price_ > other.price_ ELSE level.price_ < other.price_

(***************************************************************************)
(* engine::OrderBook.  b is the book: [bestBid, bestAsk, priceLevels,      *)
(* levels, levelPool, mem, clientOrders] with mem = [chunks, pool].        *)
(***************************************************************************)
NullOrder ==
  [present |-> FALSE, position_ |-> NullHandle, clientOrderId_ |-> 0,
   marketOrderId_ |-> 0, price_ |-> 0, qty_ |-> 0, clientId_ |-> 0, side_ |-> INVALID]

getPriceIndex(price) == price % MAX_PRICE_LEVELS

getPriceLevel(b, price) == b.priceLevels[getPriceIndex(price)]

\* the side's best pointer, as the reference bestPriceLevel
bestOf(b, side) == IF side = BUY THEN b.bestBid ELSE b.bestAsk

setBest(b, side, lv) ==
  IF side = BUY THEN [b EXCEPT !.bestBid = lv] ELSE [b EXCEPT !.bestAsk = lv]

\* Bug variant of pushAfter: current->next_ is not set to the new level.
pushAfter_unlinked(lvls, current, newPriceLevel) ==
  LET n == lvls[current].next_
  IN [lvls EXCEPT ![newPriceLevel].next_ = n,
                  ![newPriceLevel].prev_ = current,
                  ![n].prev_ = newPriceLevel]

pushAfter(lvls, current, newPriceLevel) ==
  LET n == lvls[current].next_
  IN [lvls EXCEPT ![newPriceLevel].next_ = n,
                  ![newPriceLevel].prev_ = current,
                  ![n].prev_ = newPriceLevel,
                  ![current].next_ = newPriceLevel]

\* Bug variant of pushBefore: current->prev_->next_ is not set to the new level.
pushBefore_halfLinked(lvls, current, newPriceLevel) ==
  LET p == lvls[current].prev_
  IN [lvls EXCEPT ![newPriceLevel].prev_ = p,
                  ![newPriceLevel].next_ = current,
                  ![current].prev_ = newPriceLevel]

pushBefore(lvls, current, newPriceLevel) ==
  LET p == lvls[current].prev_
  IN [lvls EXCEPT ![newPriceLevel].prev_ = p,
                  ![newPriceLevel].next_ = current,
                  ![p].next_ = newPriceLevel,
                  ![current].prev_ = newPriceLevel]

\* the while loop of addPriceLevel: [addAtTheEnd, currentPriceLevel] when it exits
\* Bug variant of insertionWalk: the walk stops at the first level that the
\* new level is not better than.
RECURSIVE insertionWalk_stopsAtNotBetter(_, _, _, _, _)
insertionWalk_stopsAtNotBetter(lvls, newPriceLevel, best, currentPriceLevel, addAtTheEnd) ==
  IF ~addAtTheEnd /\ isBetter(lvls[newPriceLevel], lvls[currentPriceLevel])
  THEN LET nxt == lvls[currentPriceLevel].next_
       IN insertionWalk_stopsAtNotBetter(lvls, newPriceLevel, best, nxt, nxt = best)
  ELSE [addAtTheEnd |-> addAtTheEnd, currentPriceLevel |-> currentPriceLevel]

RECURSIVE insertionWalk(_, _, _, _, _)
insertionWalk(lvls, newPriceLevel, best, currentPriceLevel, addAtTheEnd) ==
  IF ~addAtTheEnd /\ ~isBetter(lvls[newPriceLevel], lvls[currentPriceLevel])
  THEN LET nxt == lvls[currentPriceLevel].next_
       IN insertionWalk(lvls, newPriceLevel, best, nxt, nxt = best)
  ELSE [addAtTheEnd |-> addAtTheEnd, currentPriceLevel |-> currentPriceLevel]

\* the first push into a queue that has just been constructed: nq = [q, mem]
pushFirst(nq, order) ==
  push(nq.q, nq.mem,
       [orderId_ |-> order.clientOrderId_, qty_ |-> order.qty_,
        clientId_ |-> order.clientId_])

\* addPriceLevel after the allocation of the level and the push of the order (pu)
insertPriceLevel(b, order, pu) ==
  LET lv == b.levelPool.free_block_index_
      pool2 == PoolAlloc(b.levelPool)
      lvls1 == [b.levels EXCEPT ![lv] =
                  [side_ |-> order.side_, price_ |-> order.price_, orders |-> pu.q,
                   prev_ |-> lv, next_ |-> lv]]
      table == [b.priceLevels EXCEPT ![getPriceIndex(order.price_)] = lv]
      best == bestOf(b, order.side_)
      b1 == [b EXCEPT !.levelPool = pool2, !.mem = pu.mem, !.priceLevels = table]
      b2 == IF best = NULL
            THEN setBest([b1 EXCEPT !.levels = lvls1], order.side_, lv)
            ELSE IF isBetter(lvls1[lv], lvls1[best])
            THEN setBest([b1 EXCEPT !.levels = pushBefore(lvls1, best, lv)],
                         order.side_, lv)
            ELSE LET w == insertionWalk(lvls1, lv, best, lvls1[best].next_, FALSE)
                 IN IF w.addAtTheEnd
                    THEN [b1 EXCEPT !.levels = pushAfter(lvls1, lvls1[best].prev_, lv)]
                    ELSE [b1 EXCEPT !.levels = pushBefore(lvls1, w.currentPriceLevel, lv)]
  IN [b |-> b2, position |-> pu.handle]

\* addPriceLevel(order): the book and the queue position of the order
addPriceLevel(b, order) == insertPriceLevel(b, order, pushFirst(QueueNew(b.mem), order))

\* addOrder reaches an ASSERT of one of the pools
addOrderAborts(b, price) ==
  LET lv == getPriceLevel(b, price)
  IN IF lv = NULL
     THEN ~PoolCanAlloc(b.levelPool) \/ ~PoolCanAlloc(b.mem.pool)
     ELSE pushNeedsChunk(b.levels[lv].orders, b.mem) /\ ~PoolCanAlloc(b.mem.pool)

\* the level's queue and the chunks after the push pu
pushAtLevel(b, priceLevel, pu) ==
  [b |-> [b EXCEPT !.levels[priceLevel].orders = pu.q, !.mem = pu.mem],
   position |-> pu.handle]

\* Bug variant of storeOrder: the order is recorded without its queue position.
storeOrder_noPosition(a, order) ==
  [a.b EXCEPT !.clientOrders[order.clientId_][order.clientOrderId_] = order]

\* clientOrders_[clientId][clientOrderId] = order, a = [b, position]
storeOrder(a, order) ==
  [a.b EXCEPT !.clientOrders[order.clientId_][order.clientOrderId_] =
                [order EXCEPT !.position_ = a.position]]

addOrder(b, clientId, clientOrderId, marketOrderId, side, price, quantity) ==
  LET priceLevel == getPriceLevel(b, price)
      order == [present |-> TRUE, position_ |-> NullHandle,
                clientOrderId_ |-> clientOrderId, marketOrderId_ |-> marketOrderId,
                price_ |-> price, qty_ |-> quantity, clientId_ |-> clientId,
                side_ |-> side]
  IN IF priceLevel = NULL
     THEN storeOrder(addPriceLevel(b, order), order)
     ELSE storeOrder(pushAtLevel(b, priceLevel,
                                 push(b.levels[priceLevel].orders, b.mem,
                                      [orderId_ |-> clientOrderId, qty_ |-> quantity,
                                       clientId_ |-> clientId])),
                     order)

\* Bug variant of removePriceLevel: the best pointer stays on the unlinked level.
removePriceLevel_keepsBest(b, side, price) ==
  LET priceLevel == getPriceLevel(b, price)
      L == b.levels[priceLevel]
      b1 == IF L.next_ = priceLevel
            THEN setBest(b, side, NULL)
            ELSE [b EXCEPT !.levels = [b.levels EXCEPT ![L.prev_].next_ = L.next_,
                                                       ![L.next_].prev_ = L.prev_,
                                                       ![priceLevel].next_ = NULL,
                                                       ![priceLevel].prev_ = NULL]]
  IN [b1 EXCEPT !.priceLevels[getPriceIndex(price)] = NULL,
                !.levelPool = PoolFree(b1.levelPool, priceLevel)]

removePriceLevel(b, side, price) ==
  LET priceLevel == getPriceLevel(b, price)
      L == b.levels[priceLevel]
      best == bestOf(b, side)
      b1 == IF L.next_ = priceLevel
            THEN setBest(b, side, NULL)
            ELSE LET lvls1 == [b.levels EXCEPT ![L.prev_].next_ = L.next_,
                                               ![L.next_].prev_ = L.prev_]
                     newBest == IF lvls1[best].price_ = lvls1[priceLevel].price_
                                THEN lvls1[priceLevel].next_ ELSE best
                 IN setBest([b EXCEPT !.levels = [lvls1 EXCEPT ![priceLevel].next_ = NULL,
                                                               ![priceLevel].prev_ = NULL]],
                            side, newBest)
  IN [b1 EXCEPT !.priceLevels[getPriceIndex(price)] = NULL,
                !.levelPool = PoolFree(b1.levelPool, priceLevel)]

\* Bug variant of removeOrder: a level whose queue became empty is kept.
removeOrder_keepsLevel(b, clientId, orderId) ==
  LET order == b.clientOrders[clientId][orderId]
      priceLevel == getPriceLevel(b, order.price_)
      r == remove(b.levels[priceLevel].orders, b.mem, order.position_)
  IN [b EXCEPT !.levels[priceLevel].orders = r.q,
               !.mem = r.mem,
               !.clientOrders[clientId][orderId] = NullOrder]

\* Bug variant of removeOrder: the client entry is not cleared.
removeOrder_keepsEntry(b, clientId, orderId) ==
  LET order == b.clientOrders[clientId][orderId]
      priceLevel == getPriceLevel(b, order.price_)
      r == remove(b.levels[priceLevel].orders, b.mem, order.position_)
      b1 == [b EXCEPT !.levels[priceLevel].orders = r.q, !.mem = r.mem]
  IN IF empty(r.q) THEN removePriceLevel(b1, order.side_, order.price_) ELSE b1

removeOrder(b, clientId, orderId) ==
  LET order == b.clientOrders[clientId][orderId]
      priceLevel == getPriceLevel(b, order.price_)
      r == remove(b.levels[priceLevel].orders, b.mem, order.position_)
      b1 == [b EXCEPT !.levels[priceLevel].orders = r.q,
                      !.mem = r.mem,
                      !.clientOrders[clientId][orderId] = NullOrder]
  IN IF empty(r.q) THEN removePriceLevel(b1, order.side_, order.price_) ELSE b1

\* Bug variant of matchedQuantity: the whole resting quantity is traded.
matchedQuantity_resting(remainingQuantity, restingQty) == restingQty

\* Bug variant of matchedQuantity: every trade is for a single unit.
matchedQuantity_oneUnit(remainingQuantity, restingQty) ==
  IF remainingQuantity < 1 \/ restingQty < 1 THEN 0 ELSE 1

\* the quantity traded against the front order
matchedQuantity(remainingQuantity, restingQty) ==
  IF remainingQuantity < restingQty THEN remainingQuantity ELSE restingQty

\* Bug variant of tradePrice: the record carries the aggressor's limit.
tradePrice_limit(level, price) == price

\* the price a match record carries
tradePrice(level, price) == level.price_

\* Bug variant of orderExhausted: a matched order is never removed.
orderExhausted_never(qty) == FALSE

\* Bug variant of orderExhausted: the matched order is removed after every trade.
orderExhausted_always(qty) == TRUE

\* the matched order is removed after the trade
orderExhausted(qty) == qty = 0

\* Bug variant of matchContinues: the loop stops one event short of the cap.
matchContinues_short(b, side, price, remainingQuantity, matchCount) ==
  LET best == bestOf(b, IF side = BUY THEN SELL ELSE BUY)
  IN /\ remainingQuantity # 0
     /\ best # NULL
     /\ isMatchable(b.levels[best], price)
     /\ matchCount < MAX_MATCH_EVENTS - 1

\* Bug variant of matchContinues: the event count is not tested.
matchContinues_uncapped(b, side, price, remainingQuantity, matchCount) ==
  LET best == bestOf(b, IF side = BUY THEN SELL ELSE BUY)
  IN /\ remainingQuantity # 0
     /\ best # NULL
     /\ isMatchable(b.levels[best], price)

\* the condition of the while loop of match
matchContinues(b, side, price, remainingQuantity, matchCount) ==
  LET best == bestOf(b, IF side = BUY THEN SELL ELSE BUY)
  IN /\ remainingQuantity # 0
     /\ best # NULL
     /\ isMatchable(b.levels[best], price)
     /\ matchCount < MAX_MATCH_EVENTS

\* Bug variant of matchOverflow: only the event count is tested.
matchOverflow_countOnly(b, side, price, matchCount) == matchCount = MAX_MATCH_EVENTS

\* Bug variant of matchOverflow: the count is compared with > and never reaches it.
matchOverflow_never(b, side, price, matchCount) ==
  LET best == bestOf(b, IF side = BUY THEN SELL ELSE BUY)
  IN /\ matchCount > MAX_MATCH_EVENTS
     /\ best # NULL
     /\ isMatchable(b.levels[best], price)

\* the overflow test after the loop
matchOverflow(b, side, price, matchCount) ==
  LET best == bestOf(b, IF side = BUY THEN SELL ELSE BUY)
  IN /\ matchCount = MAX_MATCH_EVENTS
     /\ best # NULL
     /\ isMatchable(b.levels[best], price)

\* Bug variant of matchFront: the aggressor is entered in the client-order
\* table as if it rested.
matchFront_restsAggressor(st, best, f, clientId, orderId, side, price) ==
  LET h == f.handle
      matchedOrder == f.mem.chunks[h.chunk_].orders[h.index_]
      matchedQty == matchedQuantity(st.remainingQuantity_, matchedOrder.qty_)
      restQty == QtySub(matchedOrder.qty_, matchedQty)
      b1 == [st.b EXCEPT !.levels[best].orders = f.q,
                         !.mem = [f.mem EXCEPT !.chunks[h.chunk_].orders[h.index_].qty_ = restQty],
                         !.clientOrders[clientId][orderId] =
                            [present |-> TRUE, position_ |-> NullHandle,
                             clientOrderId_ |-> orderId, marketOrderId_ |-> orderId,
                             price_ |-> price, qty_ |-> st.remainingQuantity_,
                             clientId_ |-> clientId, side_ |-> side]]
      rec == [incomingOrderId_ |-> orderId,
              matchedOrderId_ |-> matchedOrder.orderId_,
              price_ |-> tradePrice(st.b.levels[best], price),
              quantity_ |-> matchedQty,
              matchedOrderRemainingQty_ |-> restQty,
              incomingClientId_ |-> clientId,
              matchedClientId_ |-> matchedOrder.clientId_,
              incomingOrderSide_ |-> side,
              matchedOrderSide_ |-> st.b.levels[best].side_]
  IN [b |-> IF orderExhausted(restQty)
            THEN removeOrder(b1, matchedOrder.clientId_, matchedOrder.orderId_)
            ELSE b1,
      matches_ |-> Append(st.matches_, rec),
      remainingQuantity_ |-> QtySub(st.remainingQuantity_, matchedQty)]

\* the trade against the front order f.handle of the level best;
\* st = [b, matches_, remainingQuantity_]
matchFront(st, best, f, clientId, orderId, side, price) ==
  LET h == f.handle
      matchedOrder == f.mem.chunks[h.chunk_].orders[h.index_]
      matchedQty == matchedQuantity(st.remainingQuantity_, matchedOrder.qty_)
      restQty == QtySub(matchedOrder.qty_, matchedQty)
      b1 == [st.b EXCEPT !.levels[best].orders = f.q,
                         !.mem = [f.mem EXCEPT !.chunks[h.chunk_].orders[h.index_].qty_ = restQty]]
      rec == [incomingOrderId_ |-> orderId,
              matchedOrderId_ |-> matchedOrder.orderId_,
              price_ |-> tradePrice(st.b.levels[best], price),
              quantity_ |-> matchedQty,
              matchedOrderRemainingQty_ |-> restQty,
              incomingClientId_ |-> clientId,
              matchedClientId_ |-> matchedOrder.clientId_,
              incomingOrderSide_ |-> side,
              matchedOrderSide_ |-> st.b.levels[best].side_]
  IN [b |-> IF orderExhausted(restQty)
            THEN removeOrder(b1, matchedOrder.clientId_, matchedOrder.orderId_)
            ELSE b1,
      matches_ |-> Append(st.matches_, rec),
      remainingQuantity_ |-> QtySub(st.remainingQuantity_, matchedQty)]

\* one iteration of the loop body
matchStep(st, clientId, orderId, side, price) ==
  LET best == bestOf(st.b, IF side = BUY THEN SELL ELSE BUY)
  IN matchFront(st, best, front(st.b.levels[best].orders, st.b.mem),
                clientId, orderId, side, price)

RECURSIVE matchLoop(_, _, _, _, _)
matchLoop(st, clientId, orderId, side, price) ==
  IF matchContinues(st.b, side, price, st.remainingQuantity_, Len(st.matches_))
  THEN matchLoop(matchStep(st, clientId, orderId, side, price),
                 clientId, orderId, side, price)
  ELSE st

\* the returned MatchResultSet, m the state at the exit of the loop
matchResultSet(m, side, price) ==
  [b |-> m.b,
   set |-> [matches_ |-> m.matches_,
            remainingQuantity_ |-> m.remainingQuantity_,
            overflow_ |-> matchOverflow(m.b, side, price, Len(m.matches_))]]

\* match(...): the book afterwards and the MatchResultSet
match(b, clientId, orderId, side, price, quantity) ==
  matchResultSet(matchLoop([b |-> b, matches_ |-> <<>>, remainingQuantity_ |-> quantity],
                           clientId, orderId, side, price),
                 side, price)

(***************************************************************************)
(* The state machine: one action per public operation of the book.         *)
(***************************************************************************)
Book ==
  [bestBid |-> bestBid, bestAsk |-> bestAsk, priceLevels |-> priceLevels,
   levels |-> levels, levelPool |-> levelPool,
   mem |-> [chunks |-> chunks, pool |-> chunkPool],
   clientOrders |-> clientOrders]

\* the variables of the book take the fields of b
Install(b) ==
  /\ bestBid' = b.bestBid
  /\ bestAsk' = b.bestAsk
  /\ priceLevels' = b.priceLevels
  /\ levels' = b.levels
  /\ levelPool' = b.levelPool
  /\ chunks' = b.mem.chunks
  /\ chunkPool' = b.mem.pool
  /\ clientOrders' = b.clientOrders

bookVars == <<bestBid, bestAsk, priceLevels, levels, levelPool, chunks, chunkPool,
              clientOrders>>

\* the arguments of a match call
Call(clientId, orderId, side, price, quantity) ==
  [clientId |-> clientId, orderId |-> orderId, side |-> side,
   price |-> price, quantity |-> quantity]

\* The view over the match buffer is valid only until the next operation of
\* the book: there is no result after construction, addOrder and removeOrder.
NoResult ==
  [valid |-> FALSE, call |-> Call(0, 0, INVALID, 0, 0), matches_ |-> <<>>,
   remainingQuantity_ |-> 0, overflow_ |-> FALSE]

\* s without the element e
RECURSIVE Without(_, _)
Without(s, e) ==
  IF s = <<>> THEN <<>>
  ELSE IF Head(s) = e THEN Without(Tail(s), e)
  ELSE <<Head(s)>> \o Without(Tail(s), e)

\* the keys of the resting orders that the records report as exhausted
FilledKeys(matches) ==
  {<<matches[k].matchedClientId_, matches[k].matchedOrderId_>> :
     k \in {j \in 1 .. Len(matches) : matches[j].matchedOrderRemainingQty_ = 0}}

RECURSIVE WithoutAll(_, _)
WithoutAll(s, K) ==
  IF s = <<>> THEN <<>>
  ELSE IF Head(s) \in K THEN WithoutAll(Tail(s), K)
  ELSE <<Head(s)>> \o WithoutAll(Tail(s), K)

Init ==
  /\ bestBid = NULL
  /\ bestAsk = NULL
  /\ priceLevels = [i \in 0 .. (MAX_PRICE_LEVELS - 1) |-> NULL]
  /\ levels = [i \in 0 .. (MAX_PRICE_LEVELS - 1) |-> ZeroLevel]
  /\ levelPool = PoolInit(MAX_PRICE_LEVELS)
  /\ \E n \in ChunkPoolSizes :
       /\ chunks = [i \in 0 .. (n - 1) |-> ZeroChunk]
       /\ chunkPool = PoolInit(n)
  /\ clientOrders = [c \in Clients |-> [o \in OrderIds |-> NullOrder]]
  /\ result = NoResult
  /\ nops = 0
  /\ fifo = [i \in 0 .. (MAX_PRICE_LEVELS - 1) |-> <<>>]
  /\ fatal = FALSE

\* What the caller guarantees of an addOrder: the order id is the lowest one of
\* the client that is not resting, the price does not collide with another
\* active price modulo MAX_PRICE_LEVELS, and an active level at that price is
\* of the order's side.
addOrderAllowed(clientId, clientOrderId, side, price) ==
  /\ ~clientOrders[clientId][clientOrderId].present
  /\ \A o \in OrderIds : o < clientOrderId => clientOrders[clientId][o].present
  /\ LET lv == priceLevels[getPriceIndex(price)]
     IN lv # NULL => levels[lv].price_ = price /\ levels[lv].side_ = side

AddOrder(clientId, clientOrderId, marketOrderId, side, price, quantity) ==
  /\ ~fatal
  /\ nops < MaxOps
  /\ nops' = nops + 1
  /\ addOrderAllowed(clientId, clientOrderId, side, price)
  /\ ~addOrderAborts(Book, price)
  /\ Install(addOrder(Book, clientId, clientOrderId, marketOrderId, side, price, quantity))
  /\ fifo' = [fifo EXCEPT ![getPriceIndex(price)] = Append(@, <<clientId, clientOrderId>>)]
  /\ result' = NoResult
  /\ UNCHANGED fatal

\* addOrder ends in utils::ASSERT: a pool has no free block
AddOrderAbort(clientId, clientOrderId, side, price, quantity) ==
  /\ ~fatal
  /\ nops < MaxOps
  /\ nops' = nops + 1
  /\ addOrderAllowed(clientId, clientOrderId, side, price)
  /\ addOrderAborts(Book, price)
  /\ fatal' = TRUE
  /\ result' = NoResult
  /\ UNCHANGED <<bookVars, fifo>>

\* the caller cancels an order that is resting
RemoveOrder(clientId, orderId) ==
  /\ ~fatal
  /\ nops < MaxOps
  /\ nops' = nops + 1
  /\ clientOrders[clientId][orderId].present
  /\ Install(removeOrder(Book, clientId, orderId))
  /\ fifo' = [fifo EXCEPT ![getPriceIndex(clientOrders[clientId][orderId].price_)] =
                Without(@, <<clientId, orderId>>)]
  /\ result' = NoResult
  /\ UNCHANGED fatal

Match(clientId, orderId, side, price, quantity) ==
  /\ ~fatal
  /\ nops < MaxOps
  /\ nops' = nops + 1
  /\ \E m \in {match(Book, clientId, orderId, side, price, quantity)} :
        /\ Install(m.b)
        /\ result' = [valid |-> TRUE,
                       call |-> Call(clientId, orderId, side, price, quantity),
                       matches_ |-> m.set.matches_,
                       remainingQuantity_ |-> m.set.remainingQuantity_,
                       overflow_ |-> m.set.overflow_]
        /\ fifo' = [i \in DOMAIN fifo |-> WithoutAll(fifo[i], FilledKeys(m.set.matches_))]
  /\ UNCHANGED fatal

Next ==
  \/ \E clientId \in Clients, clientOrderId \in OrderIds, side \in Sides,
        price \in Prices, quantity \in 1 .. MaxQty :
       AddOrder(clientId, clientOrderId, clientOrderId + 100, side, price, quantity)
  \/ \E clientId \in Clients, clientOrderId \in OrderIds, side \in Sides,
        price \in Prices, quantity \in 1 .. MaxQty :
       AddOrderAbort(clientId, clientOrderId, side, price, quantity)
  \/ \E clientId \in Clients, orderId \in OrderIds : RemoveOrder(clientId, orderId)
  \/ \E side \in Sides, price \in Prices, quantity \in 0 .. (MaxQty + 1) :
       Match(MAX_NUM_CLIENTS - 1, MaxOrderId, side, price, quantity)

Spec == Init /\ [][Next]_vars

(***************************************************************************)
(* Vocabulary of the properties, stated on the table of active levels      *)
(* rather than on the best pointers and the predicates of PriceLevel.      *)
(***************************************************************************)
OppositeSide(side) == IF side = BUY THEN SELL ELSE BUY

\* the prices of the active levels of a side, read from the direct-address table
ActivePrices(tbl, lvls, side) ==
  {lvls[tbl[i]].price_ : i \in {j \in DOMAIN tbl : tbl[j] # NULL /\ lvls[tbl[j]].side_ = side}}

\* p is a more favourable price than q on that side
Favourable(side, p, q) == IF side = BUY THEN p > q ELSE p < q

\* a resting price that an aggressor with that limit can trade at
Crosses(restingSide, restingPrice, limit) ==
  IF restingSide = BUY THEN restingPrice >= limit ELSE restingPrice <= limit

\* some active level of the side opposite to the aggressor crosses its limit
LiquidityAt(tbl, lvls, side, limit) ==
  \E p \in ActivePrices(tbl, lvls, OppositeSide(side)) : Crosses(OppositeSide(side), p, limit)

\* the step is a match call
MatchCalled == nops' = nops + 1 /\ result'.valid

RECURSIVE SumQuantity(_)
SumQuantity(matches) ==
  IF matches = <<>> THEN 0 ELSE Head(matches).quantity_ + SumQuantity(Tail(matches))

MatchedKey(r) == <<r.matchedClientId_, r.matchedOrderId_>>

\* the quantity stored in the queue slot of a resting order
RestingQty(orders, chs, key) ==
  LET h == orders[key[1]][key[2]].position_ IN chs[h.chunk_].orders[h.index_].qty_

(***************************************************************************)
(* C1  FIFO at a price: in every match call, a record against an order is  *)
(* preceded, in the same call, by records that fully fill every order that *)
(* arrived earlier at that price and was still resting when the call began.*)
(***************************************************************************)
C1_FifoAtPrice ==
  [][MatchCalled =>
       \A k \in 1 .. Len(result'.matches_) :
         LET r == result'.matches_[k]
             q == fifo[getPriceIndex(r.price_)]
         IN \E n \in 1 .. Len(q) :
              /\ q[n] = MatchedKey(r)
              /\ \A m \in 1 .. (n - 1) :
                   \E j \in 1 .. (k - 1) :
                     /\ MatchedKey(result'.matches_[j]) = q[m]
                     /\ result'.matches_[j].price_ = r.price_
                     /\ result'.matches_[j].matchedOrderRemainingQty_ = 0]_vars

C1_Witness ==
  /\ result.valid
  /\ Len(result.matches_) >= 2
  /\ result.matches_[1].price_ = result.matches_[2].price_
  /\ result.matches_[1].matchedOrderRemainingQty_ = 0
  /\ MatchedKey(result.matches_[1]) # MatchedKey(result.matches_[2])

(***************************************************************************)
(* C2  Price priority: the first record of a match call is at the most     *)
(* favourable price among the active levels of the opposite side, and no   *)
(* record is at a more favourable price than the record before it.         *)
(***************************************************************************)
C2_PricePriority ==
  [][MatchCalled /\ Len(result'.matches_) >= 1 =>
       LET resting == OppositeSide(result'.call.side)
           P == ActivePrices(priceLevels, levels, resting)
           ms == result'.matches_
       IN /\ ms[1].price_ \in P
          /\ \A p \in P : ~Favourable(resting, p, ms[1].price_)
          /\ \A k \in 1 .. (Len(ms) - 1) :
               ~Favourable(resting, ms[k + 1].price_, ms[k].price_)]_vars

C2_Witness ==
  /\ result.valid
  /\ Len(result.matches_) >= 2
  /\ result.matches_[1].price_ # result.matches_[2].price_

(***************************************************************************)
(* C3  Trade price: every record carries the price of the level the        *)
(* matched order rested at, which is never beyond the aggressor's limit:   *)
(* at most the limit for a BUY aggressor, at least the limit for a SELL.   *)
(***************************************************************************)
C3_TradePrice ==
  [][MatchCalled =>
       \A k \in 1 .. Len(result'.matches_) :
         LET r == result'.matches_[k]
             o == clientOrders[r.matchedClientId_][r.matchedOrderId_]
         IN /\ o.present
            /\ r.price_ = o.price_
            /\ r.price_ = levels[priceLevels[getPriceIndex(o.price_)]].price_
            /\ r.matchedOrderSide_ = OppositeSide(result'.call.side)
            /\ result'.call.side = BUY => r.price_ <= result'.call.price
            /\ result'.call.side = SELL => r.price_ >= result'.call.price]_vars

C3_Witness ==
  /\ result.valid
  /\ \E k \in 1 .. Len(result.matches_) : result.matches_[k].price_ # result.call.price

(***************************************************************************)
(* C4  Quantity conservation: each record trades the minimum of what the   *)
(* aggressor still wants and what the resting order holds, reports the     *)
(* resting quantity less the trade, and the trades plus the returned       *)
(* remaining quantity add up to the incoming quantity.                     *)
(***************************************************************************)
C4_QuantityConservation ==
  [][MatchCalled =>
       LET ms == result'.matches_
           wanted(k) == result'.call.quantity - SumQuantity(SubSeq(ms, 1, k - 1))
       IN /\ \A k \in 1 .. Len(ms) :
               LET held == RestingQty(clientOrders, chunks, MatchedKey(ms[k]))
               IN /\ ms[k].quantity_ = IF wanted(k) < held THEN wanted(k) ELSE held
                  /\ ms[k].matchedOrderRemainingQty_ = held - ms[k].quantity_
                  /\ ms[k].matchedOrderRemainingQty_ \in 0 .. MaxQty
          /\ SumQuantity(ms) + result'.remainingQuantity_ = result'.call.quantity
          /\ result'.remainingQuantity_ \in 0 .. result'.call.quantity]_vars

C4_Witness ==
  /\ result.valid
  /\ Len(result.matches_) >= 2
  /\ result.matches_[1].matchedOrderRemainingQty_ = 0
  /\ result.matches_[2].matchedOrderRemainingQty_ > 0

(***************************************************************************)
(* C5  Event cap and overflow flag: a match call returns at most           *)
(* MAX_MATCH_EVENTS records, and overflow is set exactly when it returned  *)
(* MAX_MATCH_EVENTS records and the opposite best level still exists and   *)
(* crosses the aggressor's limit.                                          *)
(***************************************************************************)
C5_EventCapAndOverflow ==
  result.valid =>
    LET best == IF result.call.side = BUY THEN bestAsk ELSE bestBid
    IN /\ Len(result.matches_) <= MAX_MATCH_EVENTS
       /\ result.overflow_ <=>
            /\ Len(result.matches_) = MAX_MATCH_EVENTS
            /\ best # NULL
            /\ Crosses(levels[best].side_, levels[best].price_, result.call.price)
            /\ LiquidityAt(priceLevels, levels, result.call.side, result.call.price)

C5_Witness == result.valid /\ result.overflow_

\* a full buffer without overflow: the cap was reached and nothing crossing is left
C5_WitnessFullNoOverflow ==
  result.valid /\ Len(result.matches_) = MAX_MATCH_EVENTS /\ ~result.overflow_

(***************************************************************************)
(* C6  Overflow carries a residual: no match call returns overflow = true  *)
(* together with remainingQuantity = 0.                                    *)
(***************************************************************************)
C6_OverflowCarriesResidual ==
  result.valid /\ result.overflow_ => result.remainingQuantity_ # 0

(***************************************************************************)
(* C7  Match exhausts crossing liquidity: after a match call that returns  *)
(* overflow = false and a positive remaining quantity, no active level of  *)
(* the opposite side crosses the aggressor's limit.                        *)
(***************************************************************************)
C7_ExhaustsCrossingLiquidity ==
  result.valid /\ ~result.overflow_ /\ result.remainingQuantity_ > 0 =>
    LET best == IF result.call.side = BUY THEN bestAsk ELSE bestBid
    IN /\ ~LiquidityAt(priceLevels, levels, result.call.side, result.call.price)
       /\ best # NULL =>
            ~Crosses(levels[best].side_, levels[best].price_, result.call.price)

C7_Witness ==
  /\ result.valid
  /\ ~result.overflow_
  /\ result.remainingQuantity_ > 0
  /\ Len(result.matches_) >= 1
  /\ ActivePrices(priceLevels, levels, OppositeSide(result.call.side)) # {}

(***************************************************************************)
(* C8  Re-invocation after overflow: calling match again with the returned *)
(* remaining quantity until overflow = false yields, concatenated, the     *)
(* records, the remaining quantity and the book of one match of the        *)
(* original quantity that has no event cap.                                *)
(***************************************************************************)
\* the loop of match without the test of the event count
RECURSIVE matchNoCap(_, _, _, _, _, _, _)
matchNoCap(b, clientId, orderId, side, price, remainingQuantity, matches) ==
  LET best == bestOf(b, OppositeSide(side))
  IN IF remainingQuantity # 0 /\ best # NULL /\ isMatchable(b.levels[best], price)
     THEN LET s == matchStep([b |-> b, matches_ |-> matches,
                              remainingQuantity_ |-> remainingQuantity],
                             clientId, orderId, side, price)
          IN matchNoCap(s.b, clientId, orderId, side, price, s.remainingQuantity_,
                        s.matches_)
     ELSE [b |-> b, matches_ |-> matches, remainingQuantity_ |-> remainingQuantity,
           calls |-> 1]

\* the caller re-invokes match with the residual while overflow is set
RECURSIVE reinvoke(_, _, _, _, _, _, _, _)
reinvoke(b, clientId, orderId, side, price, quantity, matches, calls) ==
  LET m == match(b, clientId, orderId, side, price, quantity)
  IN IF m.set.overflow_
     THEN reinvoke(m.b, clientId, orderId, side, price, m.set.remainingQuantity_,
                   matches \o m.set.matches_, calls + 1)
     ELSE [b |-> m.b, matches_ |-> matches \o m.set.matches_,
           remainingQuantity_ |-> m.set.remainingQuantity_, calls |-> calls + 1]

MatchInputs == Sides \X Prices \X (0 .. (MaxQty + 1))

C8_ReinvocationEquivalence ==
  ~fatal =>
    \A in \in MatchInputs :
      LET capped == reinvoke(Book, MAX_NUM_CLIENTS - 1, MaxOrderId,
                             in[1], in[2], in[3], <<>>, 0)
          single == matchNoCap(Book, MAX_NUM_CLIENTS - 1, MaxOrderId,
                               in[1], in[2], in[3], <<>>)
      IN /\ capped.matches_ = single.matches_
         /\ capped.remainingQuantity_ = single.remainingQuantity_
         /\ capped.b = single.b

\* a book on which one call overflows with a residual, so that the second
\* call produces the rest of the records
C8_Witness ==
  /\ ~fatal
  /\ \E in \in MatchInputs :
       LET capped == reinvoke(Book, MAX_NUM_CLIENTS - 1, MaxOrderId,
                              in[1], in[2], in[3], <<>>, 0)
       IN capped.calls >= 2 /\ Len(capped.matches_) > MAX_MATCH_EVENTS

(***************************************************************************)
(* C9  Partial fill of the resting order: an order that a record leaves    *)
(* with a positive remaining quantity keeps its client entry, its handle   *)
(* and its valid slot, now holding the remaining quantity; its level stays *)
(* active and it is the front of its queue, so the next crossing match     *)
(* trades against it first.  An order that a record exhausts is no longer  *)
(* in the queue.                                                           *)
(***************************************************************************)
C9_PartialFillInPlace ==
  [][MatchCalled =>
       \A k \in 1 .. Len(result'.matches_) :
         LET r == result'.matches_[k]
             key == MatchedKey(r)
             o == clientOrders[key[1]][key[2]]
             h == o.position_
             i == getPriceIndex(o.price_)
             lv == priceLevels[i]
         IN IF r.matchedOrderRemainingQty_ > 0
            THEN /\ clientOrders'[key[1]][key[2]] = o
                 /\ chunks'[h.chunk_].validityBitmap[h.index_]
                 /\ chunks'[h.chunk_].orders[h.index_] =
                      [orderId_ |-> key[2], qty_ |-> r.matchedOrderRemainingQty_,
                       clientId_ |-> key[1]]
                 /\ priceLevels'[i] = lv
                 /\ lv = (IF r.matchedOrderSide_ = BUY THEN bestBid' ELSE bestAsk')
                 /\ levels'[lv].orders.totalSize_ = Len(fifo'[i])
                 /\ Head(fifo'[i]) = key
                 /\ \A n \in 1 .. Len(fifo'[i]) :
                      \E m \in 1 .. Len(fifo[i]) : fifo[i][m] = fifo'[i][n]
                 /\ front(levels'[lv].orders, [chunks |-> chunks', pool |-> chunkPool']).handle = h
                 /\ \A qty \in 1 .. MaxQty :
                      LET again == match(Book', result'.call.clientId, result'.call.orderId,
                                         result'.call.side, result'.call.price, qty)
                      IN /\ Len(again.set.matches_) >= 1
                         /\ MatchedKey(again.set.matches_[1]) = key
            ELSE /\ ~clientOrders'[key[1]][key[2]].present
                 /\ ~chunks'[h.chunk_].validityBitmap[h.index_]
                 /\ \A n \in 1 .. Len(fifo'[i]) : fifo'[i][n] # key
                 /\ priceLevels'[i] # NULL =>
                      levels'[priceLevels'[i]].orders.totalSize_ = Len(fifo'[i])]_vars

\* a partly filled front order with another order queued behind it
C9_Witness ==
  /\ result.valid
  /\ Len(result.matches_) >= 1
  /\ result.matches_[Len(result.matches_)].matchedOrderRemainingQty_ > 0
  /\ Len(fifo[getPriceIndex(result.matches_[Len(result.matches_)].price_)]) >= 2

\* a record that exhausts the resting order
C9_WitnessExhausted ==
  /\ result.valid
  /\ \E k \in 1 .. Len(result.matches_) : result.matches_[k].matchedOrderRemainingQty_ = 0

(***************************************************************************)
(* C10  A non-crossing match changes nothing: when no active level of the  *)
(* opposite side crosses the limit, or the incoming quantity is 0, match   *)
(* returns no record, the incoming quantity as remaining quantity and      *)
(* overflow = false, and leaves the book as it was.                        *)
(***************************************************************************)
C10_NonCrossingMatchIsNoOp ==
  [][/\ MatchCalled
     /\ \/ result'.call.quantity = 0
        \/ ~LiquidityAt(priceLevels, levels, result'.call.side, result'.call.price)
     => /\ result'.matches_ = <<>>
        /\ result'.remainingQuantity_ = result'.call.quantity
        /\ ~result'.overflow_
        /\ bookVars' = bookVars
        /\ fifo' = fifo]_vars

\* a call with a positive quantity against a non-empty opposite side that does not cross
C10_Witness ==
  /\ result.valid
  /\ result.matches_ = <<>>
  /\ result.call.quantity > 0
  /\ ActivePrices(priceLevels, levels, OppositeSide(result.call.side)) # {}

\* a call with quantity 0 against crossing liquidity
C10_WitnessZeroQuantity ==
  /\ result.valid
  /\ result.call.quantity = 0
  /\ LiquidityAt(priceLevels, levels, result.call.side, result.call.price)

(***************************************************************************)
(* Vocabulary of the structural properties.                                *)
(***************************************************************************)
\* the chunks of a queue from its head chunk on, following next
RECURSIVE ChunkChain(_, _, _)
ChunkChain(chs, c, fuel) ==
  IF c = NULL \/ fuel = 0 THEN <<>> ELSE <<c>> \o ChunkChain(chs, chs[c].next, fuel - 1)

\* the orders queued in q in queue order: the valid slots below the high-water
\* mark of each chunk, chunk after chunk
RECURSIVE SlotsOf(_, _, _)
SlotsOf(chs, c, i) ==
  IF i >= ChunkSize THEN <<>>
  ELSE (IF chs[c].validityBitmap[i] /\ i < chs[c].highWaterMark
        THEN <<[chunk_ |-> c, index_ |-> i]>> ELSE <<>>) \o SlotsOf(chs, c, i + 1)

RECURSIVE HandlesOfChain(_, _)
HandlesOfChain(chs, chain) ==
  IF chain = <<>> THEN <<>>
  ELSE SlotsOf(chs, Head(chain), 0) \o HandlesOfChain(chs, Tail(chain))

QueueHandles(chs, q) == HandlesOfChain(chs, ChunkChain(chs, q.headChunk_, ChunkPoolSize))

(***************************************************************************)
(* C11  addOrder postcondition: after addOrder(clientId, clientOrderId,    *)
(* marketOrderId, side, price, qty) the level at price is active and of    *)
(* that side, the last order of its queue is (clientOrderId, qty,          *)
(* clientId), and the client entry records marketOrderId, price and a      *)
(* handle that addresses that queued order, for a new and for an existing  *)
(* level.                                                                  *)
(***************************************************************************)
AddOrderPost(clientId, clientOrderId, marketOrderId, side, price, quantity) ==
  LET lv == priceLevels[getPriceIndex(price)]
      o == clientOrders[clientId][clientOrderId]
      hs == QueueHandles(chunks, levels[lv].orders)
  IN /\ lv # NULL
     /\ levels[lv].side_ = side
     /\ levels[lv].price_ = price
     /\ hs # <<>>
     /\ Len(hs) = levels[lv].orders.totalSize_
     /\ chunks[hs[Len(hs)].chunk_].orders[hs[Len(hs)].index_] =
          [orderId_ |-> clientOrderId, qty_ |-> quantity, clientId_ |-> clientId]
     /\ o.present
     /\ o.marketOrderId_ = marketOrderId
     /\ o.price_ = price
     /\ o.position_ = hs[Len(hs)]

C11_WitnessNewLevel ==
  \E clientId \in Clients, clientOrderId \in OrderIds :
    LET o == clientOrders[clientId][clientOrderId]
        lv == priceLevels[getPriceIndex(o.price_)]
    IN /\ o.present
       /\ levels[lv].orders.totalSize_ = 1
       /\ levels[lv].next_ # lv

\* the levels met on the walk from start via next_, until the walk is back at start
RECURSIVE WalkNext(_, _, _, _)
WalkNext(lvls, start, cur, fuel) ==
  IF cur = NULL \/ fuel = 0 THEN <<>>
  ELSE <<cur>> \o (IF lvls[cur].next_ = start THEN <<>>
                   ELSE WalkNext(lvls, start, lvls[cur].next_, fuel - 1))

\* the chain of a side, walked from its best pointer
SideChain(side) ==
  LET best == IF side = BUY THEN bestBid ELSE bestAsk
  IN WalkNext(levels, best, best, MAX_PRICE_LEVELS + 1)

\* the active levels of a side: the non-null entries of the table
ActiveLevels(side) ==
  {priceLevels[i] : i \in {j \in DOMAIN priceLevels :
                             priceLevels[j] # NULL /\ levels[priceLevels[j]].side_ = side}}

(***************************************************************************)
(* C12  Chain sortedness: the walk of a side's chain from its best pointer *)
(* via next yields strictly worsening prices (decreasing for bids,         *)
(* increasing for asks), visits every active level of the side exactly     *)
(* once, and returns to best.                                              *)
(***************************************************************************)
C12_ChainSortedness ==
  ~fatal =>
    \A side \in Sides :
      LET ch == SideChain(side)
          best == IF side = BUY THEN bestBid ELSE bestAsk
      IN /\ {ch[k] : k \in 1 .. Len(ch)} = ActiveLevels(side)
         /\ Len(ch) = Cardinality(ActiveLevels(side))
         /\ ch # <<>> => levels[ch[Len(ch)]].next_ = best
         /\ \A k \in 1 .. (Len(ch) - 1) :
              Favourable(side, levels[ch[k]].price_, levels[ch[k + 1]].price_)

\* three levels on one side, the last one added between the other two
C12_Witness ==
  \E side \in Sides :
    /\ Len(SideChain(side)) = 3
    /\ \E clientId \in Clients :
         /\ clientOrders[clientId][MaxOrderId].present
         /\ priceLevels[getPriceIndex(clientOrders[clientId][MaxOrderId].price_)]
              = SideChain(side)[2]

(***************************************************************************)
(* C13  Best pointers: for each side the best pointer is null exactly when *)
(* the side has no active level, and otherwise references the active level *)
(* of the side whose price is strictly more favourable than that of every  *)
(* other active level of the side.                                         *)
(***************************************************************************)
C13_BestPointers ==
  ~fatal =>
    \A side \in Sides :
      LET best == IF side = BUY THEN bestBid ELSE bestAsk
      IN /\ best = NULL <=> ActiveLevels(side) = {}
         /\ best # NULL =>
              /\ best \in ActiveLevels(side)
              /\ \A lv \in ActiveLevels(side) \ {best} :
                   Favourable(side, levels[best].price_, levels[lv].price_)

\* a fill has emptied the best level and the pointer is on the next-best level
C13_Witness ==
  /\ result.valid
  /\ \E k \in 1 .. Len(result.matches_) :
       LET r == result.matches_[k]
           best == IF r.matchedOrderSide_ = BUY THEN bestBid ELSE bestAsk
       IN /\ r.matchedOrderRemainingQty_ = 0
          /\ best # NULL
          /\ Favourable(r.matchedOrderSide_, r.price_, levels[best].price_)

\* a cancel or a fill has emptied the only level of a side that had been active
C13_WitnessNull ==
  /\ result.valid
  /\ Len(result.matches_) >= 1
  /\ (IF result.call.side = BUY THEN bestAsk ELSE bestBid) = NULL

\* how often x occurs in the sequence s
Occurrences(s, x) == Cardinality({k \in 1 .. Len(s) : s[k] = x})

(***************************************************************************)
(* C14  Active levels are exactly the non-empty ones: every non-null entry *)
(* of the table is a level with a non-empty queue, stored at index price   *)
(* mod MAX_PRICE_LEVELS, that appears exactly once in the chain of its     *)
(* side; a level that is not in the table is in no chain and its block is  *)
(* free, so a level is active from the first add at its price until the    *)
(* cancel or fill that empties its queue.                                  *)
(***************************************************************************)
C14_ActiveLevelsNonEmpty ==
  ~fatal =>
    /\ \A i \in DOMAIN priceLevels :
         LET lv == priceLevels[i]
         IN lv # NULL =>
              /\ ~empty(levels[lv].orders)
              /\ QueueHandles(chunks, levels[lv].orders) # <<>>
              /\ levels[lv].side_ \in Sides
              /\ getPriceIndex(levels[lv].price_) = i
              /\ Occurrences(SideChain(levels[lv].side_), lv) = 1
              /\ Occurrences(SideChain(OppositeSide(levels[lv].side_)), lv) = 0
              /\ ~levelPool.is_free_[lv]
              /\ \A j \in DOMAIN priceLevels : priceLevels[j] = lv => j = i
    /\ \A lv \in DOMAIN levels :
         (\A i \in DOMAIN priceLevels : priceLevels[i] # lv) =>
              /\ levelPool.is_free_[lv]
              /\ Occurrences(SideChain(BUY), lv) = 0
              /\ Occurrences(SideChain(SELL), lv) = 0

\* a fill has emptied one level of a side, another level of that side is active
C14_Witness ==
  /\ result.valid
  /\ \E k \in 1 .. Len(result.matches_) :
       LET r == result.matches_[k]
       IN /\ r.matchedOrderRemainingQty_ = 0
          /\ priceLevels[getPriceIndex(r.price_)] = NULL
          /\ ActiveLevels(r.matchedOrderSide_) # {}

\* the handles of the orders queued in the active levels, with their level
RestingSlots ==
  UNION {{<<lv, QueueHandles(chunks, levels[lv].orders)[k]>> :
            k \in 1 .. Len(QueueHandles(chunks, levels[lv].orders))} :
         lv \in ActiveLevels(BUY) \cup ActiveLevels(SELL)}

LiveEntries == {e \in Clients \X OrderIds : clientOrders[e[1]][e[2]].present}

RECURSIVE SumSizes(_)
SumSizes(S) ==
  IF S = {} THEN 0
  ELSE LET lv == CHOOSE x \in S : TRUE
       IN levels[lv].orders.totalSize_ + SumSizes(S \ {lv})

(***************************************************************************)
(* C15  Client index in sync with the book: the entry of (client,          *)
(* clientOrderId) is populated if and only if that order is resting in the *)
(* queue of a level, and the sum of the queue sizes over all levels equals *)
(* the number of populated entries.                                        *)
(***************************************************************************)
C15_ClientIndexInSync ==
  ~fatal =>
    /\ \A e \in LiveEntries :
         LET o == clientOrders[e[1]][e[2]]
             lv == priceLevels[getPriceIndex(o.price_)]
         IN /\ lv # NULL
            /\ levels[lv].price_ = o.price_
            /\ <<lv, o.position_>> \in RestingSlots
            /\ chunks[o.position_.chunk_].orders[o.position_.index_].orderId_ = e[2]
            /\ chunks[o.position_.chunk_].orders[o.position_.index_].clientId_ = e[1]
    /\ \A s \in RestingSlots :
         LET q == chunks[s[2].chunk_].orders[s[2].index_]
         IN /\ <<q.clientId_, q.orderId_>> \in LiveEntries
            /\ clientOrders[q.clientId_][q.orderId_].position_ = s[2]
    /\ Cardinality(RestingSlots) = Cardinality(LiveEntries)
    /\ SumSizes(ActiveLevels(BUY) \cup ActiveLevels(SELL)) = Cardinality(LiveEntries)

\* a match has filled one order completely while another order is resting
C15_Witness ==
  /\ result.valid
  /\ \E k \in 1 .. Len(result.matches_) : result.matches_[k].matchedOrderRemainingQty_ = 0
  /\ LiveEntries # {}
  /\ \A k \in 1 .. Len(result.matches_) :
       result.matches_[k].matchedOrderRemainingQty_ = 0 =>
         MatchedKey(result.matches_[k]) \notin LiveEntries

(***************************************************************************)
(* Calls outside the caller's contract.  SpecMisuse adds them to the       *)
(* operations of Spec.                                                     *)
(***************************************************************************)
\* removeOrder(clientId, orderId) while clientOrders_[clientId][orderId] is
\* nullptr.  order->price_ dereferences the null pointer: either the access
\* traps, or it yields some price and position, the queue of the level at
\* that price drops the order at that position, and orderAllocator_.free(nullptr)
\* fails its ASSERT.  The process has ended in both outcomes.
RemoveOrderNull(clientId, orderId) ==
  /\ ~fatal
  /\ nops < MaxOps
  /\ nops' = nops + 1
  /\ ~clientOrders[clientId][orderId].present
  /\ fatal' = TRUE
  /\ result' = NoResult
  /\ \/ UNCHANGED <<bookVars, fifo>>
     \/ \E s \in RestingSlots :
          \E r \in {remove(levels[s[1]].orders, [chunks |-> chunks, pool |-> chunkPool],
                           s[2])} :
            /\ levels' = [levels EXCEPT ![s[1]].orders = r.q]
            /\ chunks' = r.mem.chunks
            /\ fifo' = [i \in DOMAIN fifo |->
                          Without(fifo[i], <<chunks[s[2].chunk_].orders[s[2].index_].clientId_,
                                             chunks[s[2].chunk_].orders[s[2].index_].orderId_>>)]
            /\ UNCHANGED <<bestBid, bestAsk, priceLevels, levelPool, chunkPool, clientOrders>>

\* prices whose index is that of a price of Prices
CollidingPrices == {p + MAX_PRICE_LEVELS : p \in Prices}

\* addOrder at a price whose index holds an active level of another price:
\* getPriceLevel returns that level and the order is pushed into its queue.
\* The operations on the book after such a call are not explored: the call
\* is the last one of a run.
AddOrderCollision(clientId, clientOrderId, marketOrderId, side, price, quantity) ==
  /\ ~fatal
  /\ nops = MaxOps - 1
  /\ nops' = nops + 1
  /\ ~clientOrders[clientId][clientOrderId].present
  /\ \A o \in OrderIds : o < clientOrderId => clientOrders[clientId][o].present
  /\ priceLevels[getPriceIndex(price)] # NULL
  /\ levels[priceLevels[getPriceIndex(price)]].price_ # price
  /\ ~addOrderAborts(Book, price)
  /\ Install(addOrder(Book, clientId, clientOrderId, marketOrderId, side, price, quantity))
  /\ fifo' = [fifo EXCEPT ![getPriceIndex(price)] = Append(@, <<clientId, clientOrderId>>)]
  /\ result' = NoResult
  /\ UNCHANGED fatal

NextMisuse ==
  \/ Next
  \/ \E clientId \in Clients, orderId \in OrderIds : RemoveOrderNull(clientId, orderId)
  \/ \E clientId \in Clients, clientOrderId \in OrderIds, side \in Sides,
        price \in CollidingPrices, quantity \in 1 .. MaxQty :
       AddOrderCollision(clientId, clientOrderId, clientOrderId + 100, side, price, quantity)

SpecMisuse == Init /\ [][NextMisuse]_vars

\* the order was queued once and is not resting: a slot below a high-water
\* mark still holds it with its bit cleared
WasQueued(clientId, orderId) ==
  /\ ~clientOrders[clientId][orderId].present
  /\ \E c \in DOMAIN chunks, i \in ChunkSlots :
       /\ i < chunks[c].highWaterMark
       /\ ~chunks[c].validityBitmap[i]
       /\ chunks[c].orders[i].orderId_ = orderId
       /\ chunks[c].orders[i].clientId_ = clientId

\* no order has been added since construction: no chunk has been written
NothingQueuedYet == \A c \in DOMAIN chunks : chunks[c].highWaterMark = 0

(***************************************************************************)
(* C16  Double-cancel is a no-op: removeOrder(client, id) for an order     *)
(* that was cancelled or fully filled before changes nothing in the book   *)
(* and raises no fatal error.                                              *)
(***************************************************************************)
C16_DoubleCancelNoOp ==
  [][\A clientId \in Clients, orderId \in OrderIds :
       RemoveOrderNull(clientId, orderId) /\ WasQueued(clientId, orderId)
         => bookVars' = bookVars /\ ~fatal']_vars

(***************************************************************************)
(* C17  removeOrder of an unknown order no-ops silently: removeOrder       *)
(* (client, id) for an order that was never added changes no level, queue, *)
(* best pointer, client entry or pool and reaches no fatal state.          *)
(***************************************************************************)
C17_UnknownRemoveNoOp ==
  [][\A clientId \in Clients, orderId \in OrderIds :
       RemoveOrderNull(clientId, orderId) /\ NothingQueuedYet
         => bookVars' = bookVars /\ ~fatal']_vars

(***************************************************************************)
(* C18  Price-index collision is fatal: addOrder at a price whose index    *)
(* holds an active level of another price ends in the fatal state and      *)
(* queues nothing, so every resting order is in the level of its price.    *)
(***************************************************************************)
C18_CollisionIsFatal ==
  [][\A clientId \in Clients, clientOrderId \in OrderIds, side \in Sides,
        price \in CollidingPrices, quantity \in 1 .. MaxQty :
       AddOrderCollision(clientId, clientOrderId, clientOrderId + 100, side, price, quantity)
         => fatal' /\ bookVars' = bookVars]_vars

(***************************************************************************)
(* The order queue on its own, as tests/order_queue_test.cpp drives it:    *)
(* one queue over the chunk allocator, a reference list next to it, and    *)
(* the handles push returned.  The queue is the orders field of level slot *)
(* 0, fifo[0] is the reference list (each element with its handle), and    *)
(* result is the last call, the handle it returned or took, and the        *)
(* handles passed to remove so far.  SpecQueue is this state machine.      *)
(***************************************************************************)
MaxQueueOps == 7

\* the queue under test and its allocator
queue_ == levels[0].orders

pool_ == [chunks |-> chunks, pool |-> chunkPool]

\* the reference list
model == fifo[0]

\* TestQueue::Allocator pool_; queue_ = make_unique<TestQueue>(pool_)
QueueInit ==
  /\ bestBid = NULL
  /\ bestAsk = NULL
  /\ priceLevels = [i \in 0 .. (MAX_PRICE_LEVELS - 1) |-> NULL]
  /\ levelPool = PoolInit(MAX_PRICE_LEVELS)
  /\ clientOrders = [c \in Clients |-> [o \in OrderIds |-> NullOrder]]
  /\ \E n \in ChunkPoolSizes :
       \E nq \in {QueueNew([chunks |-> [i \in 0 .. (n - 1) |-> ZeroChunk],
                            pool |-> PoolInit(n)])} :
         /\ levels = [i \in 0 .. (MAX_PRICE_LEVELS - 1) |->
                        IF i = 0 THEN [ZeroLevel EXCEPT !.orders = nq.q] ELSE ZeroLevel]
         /\ chunks = nq.mem.chunks
         /\ chunkPool = nq.mem.pool
  /\ result = [op |-> "new", handle |-> NullHandle, removed |-> {}]
  /\ nops = 0
  /\ fifo = [i \in 0 .. (MAX_PRICE_LEVELS - 1) |-> <<>>]
  /\ fatal = FALSE

\* the queue and its allocator take the fields of a = [q, mem]
QueueInstall(a) ==
  /\ levels' = [levels EXCEPT ![0].orders = a.q]
  /\ chunks' = a.mem.chunks
  /\ chunkPool' = a.mem.pool
  /\ UNCHANGED <<bestBid, bestAsk, priceLevels, levelPool, clientOrders>>

\* s without its k-th element
RemoveAt(s, k) == [i \in 1 .. (Len(s) - 1) |-> IF i < k THEN s[i] ELSE s[i + 1]]

\* handles.push_back(q.push(order)); model.push_back(order): the i-th push
\* carries order id i
QueuePush(qty) ==
  /\ ~fatal
  /\ nops < MaxQueueOps
  /\ nops' = nops + 1
  /\ pushNeedsChunk(queue_, pool_) => PoolCanAlloc(chunkPool)
  /\ \E pu \in {push(queue_, pool_, [orderId_ |-> nops, qty_ |-> qty, clientId_ |-> 0])} :
       /\ QueueInstall(pu)
       /\ fifo' = [fifo EXCEPT ![0] =
                     Append(@, [order |-> [orderId_ |-> nops, qty_ |-> qty, clientId_ |-> 0],
                                handle |-> pu.handle])]
       /\ result' = [result EXCEPT !.op = "push", !.handle = pu.handle]
  /\ UNCHANGED fatal

\* push ends in utils::ASSERT: the tail chunk is full and the pool has no free block
QueuePushAbort ==
  /\ ~fatal
  /\ nops < MaxQueueOps
  /\ nops' = nops + 1
  /\ pushNeedsChunk(queue_, pool_)
  /\ ~PoolCanAlloc(chunkPool)
  /\ fatal' = TRUE
  /\ result' = [result EXCEPT !.op = "push", !.handle = NullHandle]
  /\ UNCHANGED <<bookVars, fifo>>

\* q.remove(handles[k]) for an order that is still queued
QueueRemove(k) ==
  /\ ~fatal
  /\ nops < MaxQueueOps
  /\ nops' = nops + 1
  /\ k \in 1 .. Len(model)
  /\ QueueInstall(remove(queue_, pool_, model[k].handle))
  /\ fifo' = [fifo EXCEPT ![0] = RemoveAt(@, k)]
  /\ result' = [op |-> "remove", handle |-> model[k].handle,
                removed |-> result.removed \cup {model[k].handle}]
  /\ UNCHANGED fatal

\* q.pop(); if (!model.empty()) model.pop_front()
QueuePop ==
  /\ ~fatal
  /\ nops < MaxQueueOps
  /\ nops' = nops + 1
  /\ QueueInstall(pop(queue_, pool_))
  /\ fifo' = [fifo EXCEPT ![0] = IF @ = <<>> THEN <<>> ELSE Tail(@)]
  /\ result' = [result EXCEPT !.op = "pop", !.handle = front(queue_, pool_).handle]
  /\ UNCHANGED fatal

\* q.front(): the head advances and the front order is returned
QueueFront ==
  /\ ~fatal
  /\ nops < MaxQueueOps
  /\ nops' = nops + 1
  /\ \E f \in {front(queue_, pool_)} :
       /\ QueueInstall(f)
       /\ result' = [result EXCEPT !.op = "front", !.handle = f.handle]
  /\ UNCHANGED <<fifo, fatal>>

\* q.remove(h) again, right after q.remove(h)
QueueRemoveAgain ==
  /\ ~fatal
  /\ nops < MaxQueueOps
  /\ nops' = nops + 1
  /\ result.op = "remove"
  /\ QueueInstall(remove(queue_, pool_, result.handle))
  /\ result' = [result EXCEPT !.op = "removeAgain"]
  /\ UNCHANGED <<fifo, fatal>>

\* q.last(); the call does not return when its scan runs around a cycle of
\* prev links
QueueLast ==
  /\ ~fatal
  /\ nops < MaxQueueOps
  /\ nops' = nops + 1
  /\ \E shiftWraps \in BOOLEAN :
       \E l \in {last(queue_, pool_, shiftWraps)} :
         /\ result' = [result EXCEPT !.op = "last", !.handle = l.handle]
         /\ fatal' = ~l.returns
  /\ UNCHANGED <<bookVars, fifo>>

\* std::as_const(q).front(): nothing is written
QueueFrontConst ==
  /\ ~fatal
  /\ nops < MaxQueueOps
  /\ nops' = nops + 1
  /\ result' = [result EXCEPT !.op = "frontConst", !.handle = frontConst(queue_, pool_)]
  /\ UNCHANGED <<bookVars, fifo, fatal>>

QueueNext ==
  \/ \E qty \in 1 .. MaxQty : QueuePush(qty)
  \/ QueueLast
  \/ QueueFrontConst
  \/ QueuePushAbort
  \/ \E k \in 1 .. MaxQueueOps : QueueRemove(k)
  \/ QueueRemoveAgain
  \/ QueuePop
  \/ QueueFront

SpecQueue == QueueInit /\ [][QueueNext]_vars

\* the order a handle addresses
OrderAt(chs, h) == chs[h.chunk_].orders[h.index_]

\* the orders queued in q, in queue order
QueuedOrders(chs, q) ==
  [i \in 1 .. Len(QueueHandles(chs, q)) |-> OrderAt(chs, QueueHandles(chs, q)[i])]

\* the orders of the reference list, in list order
ModelOrders == [i \in 1 .. Len(model) |-> model[i].order]

\* what front() returns: the order, or NULL for nullptr
FrontOrder(f) == IF f.handle.chunk_ = NULL THEN NULL ELSE OrderAt(f.mem.chunks, f.handle)

(***************************************************************************)
(* C19  The order queue refines a FIFO sequence: after every sequence of   *)
(* push, remove of a queued order and pop, size() is the length of the     *)
(* reference list, empty() holds iff the list is empty, front() returns    *)
(* the first element of the list (nullptr when it is empty), and the       *)
(* queued orders are the list's orders in the list's order, across chunk   *)
(* boundaries and after interior cancels.                                  *)
(***************************************************************************)
C19_QueueRefinesFifo ==
  /\ queue_.totalSize_ = Len(model)
  /\ empty(queue_) <=> model = <<>>
  /\ FrontOrder(front(queue_, pool_)) = IF model = <<>> THEN NULL ELSE Head(model).order
  /\ QueuedOrders(front(queue_, pool_).mem.chunks, front(queue_, pool_).q) = ModelOrders

\* push A, B, C over a chunk boundary, cancel B, pop twice: the second pop
\* has removed C, the first order of the second chunk
C19_Witness ==
  /\ result.op = "pop"
  /\ result.handle.chunk_ # NULL
  /\ chunks[result.handle.chunk_].prev # NULL
  /\ result.handle.index_ = 0
  /\ \E h \in result.removed :
       /\ h.chunk_ = chunks[result.handle.chunk_].prev
       /\ h.index_ = ChunkSize - 1
  /\ queue_.totalSize_ = Len(model)

\* every handle of the reference list addresses its order in a live chunk
HandlesAddress ==
  \A k \in 1 .. Len(model) :
    /\ ~chunkPool.is_free_[model[k].handle.chunk_]
    /\ chunks[model[k].handle.chunk_].validityBitmap[model[k].handle.index_]
    /\ OrderAt(chunks, model[k].handle) = model[k].order

(***************************************************************************)
(* C20  Handle stability: a handle returned by push whose order was never  *)
(* popped or removed still addresses the original order, and remove(h)     *)
(* removes exactly that order: the size decreases by one and the other     *)
(* queued orders and their order are unchanged, whenever it is called.     *)
(***************************************************************************)
C20_HandleStability ==
  [][/\ HandlesAddress
     /\ HandlesAddress'
     /\ \A k \in 1 .. MaxQueueOps :
          QueueRemove(k) =>
            /\ queue_'.totalSize_ = queue_.totalSize_ - 1
            /\ QueuedOrders(chunks', queue_') = RemoveAt(QueuedOrders(chunks, queue_), k)
            /\ QueueHandles(chunks', queue_') = RemoveAt(QueueHandles(chunks, queue_), k)]_vars

\* remove(h) has just removed an order that was neither the first nor the
\* last of the queue, after later pushes had crossed into another chunk
C20_Witness ==
  /\ result.op = "remove"
  /\ Len(model) >= 2
  /\ result.handle.chunk_ # queue_.tailChunk_
  /\ \E k \in 1 .. (Len(model) - 1) :
       /\ model[k].handle.chunk_ = result.handle.chunk_
       /\ model[k].handle.index_ < result.handle.index_
       /\ model[k + 1].handle.chunk_ # result.handle.chunk_

(***************************************************************************)
(* C21  Queue remove is idempotent: remove(h) right after remove(h), the   *)
(* chunk of h still allocated, leaves the queue as the single remove(h)    *)
(* left it: the size is decremented once and never drops below zero.       *)
(***************************************************************************)
C21_RemoveIdempotent ==
  [][QueueRemoveAgain =>
       /\ ~chunkPool.is_free_[result.handle.chunk_]
       /\ queue_' = queue_
       /\ chunks' = chunks
       /\ chunkPool' = chunkPool
       /\ queue_'.totalSize_ >= 0
       /\ queue_'.totalSize_ = Len(model)]_vars

\* the second remove(h) has run on a queue that still holds other orders
C21_Witness ==
  /\ result.op = "removeAgain"
  /\ model # <<>>
  /\ ~chunks[result.handle.chunk_].validityBitmap[result.handle.index_]

(***************************************************************************)
(* C22  last() returns the most recently pushed order that is still        *)
(* valid: in every queue state reached by push, remove and pop, last()     *)
(* returns nullptr iff the queue is empty and otherwise the latest         *)
(* inserted order that was neither removed nor popped.                     *)
(***************************************************************************)
C22_LastReturnsLatest ==
  [][QueueLast =>
       /\ ~fatal'
       /\ result'.handle = IF model = <<>> THEN NullHandle
                           ELSE model[Len(model)].handle]_vars

(***************************************************************************)
(* utils::memory_pool on its own: a pool of small values driven by alloc   *)
(* and free.  chunkPool is the bookkeeping of the pool and chunks the      *)
(* data_ of its blocks; fifo is the caller's view (the pointers it holds   *)
(* and the value it constructed behind each), and result is the last call, *)
(* the pointer it returned or took, and the number of frees so far.        *)
(* SpecPool is this state machine.                                         *)
(***************************************************************************)
MaxPoolOps == 6

\* the capacity of the pool
PoolCapacity == Cardinality(DOMAIN chunkPool.is_free_)

\* the pointers the caller holds
live == DOMAIN fifo

\* memory_pool<T> pool{n}
PoolTestInit ==
  /\ bestBid = NULL
  /\ bestAsk = NULL
  /\ priceLevels = [i \in 0 .. (MAX_PRICE_LEVELS - 1) |-> NULL]
  /\ levels = [i \in 0 .. (MAX_PRICE_LEVELS - 1) |-> ZeroLevel]
  /\ levelPool = PoolInit(MAX_PRICE_LEVELS)
  /\ clientOrders = [c \in Clients |-> [o \in OrderIds |-> NullOrder]]
  /\ \E n \in ChunkPoolSizes :
       /\ chunks = [i \in 0 .. (n - 1) |-> 0]
       /\ chunkPool = PoolInit(n)
  /\ result = [op |-> "new", ptr |-> NULL, frees |-> 0]
  /\ nops = 0
  /\ fifo = <<>>
  /\ fatal = FALSE

\* f without the key k
DropKey(f, k) == [x \in (DOMAIN f) \ {k} |-> f[x]]

\* p = pool.alloc(v): both ASSERTs pass, T(v) is constructed in the block
PoolAllocCall(v) ==
  /\ ~fatal
  /\ nops < MaxPoolOps
  /\ nops' = nops + 1
  /\ PoolCanAlloc(chunkPool)
  /\ chunks' = [chunks EXCEPT ![chunkPool.free_block_index_] = v]
  /\ chunkPool' = PoolAlloc(chunkPool)
  /\ fifo' = [x \in live \cup {chunkPool.free_block_index_} |->
                IF x = chunkPool.free_block_index_ THEN v ELSE fifo[x]]
  /\ result' = [result EXCEPT !.op = "alloc", !.ptr = chunkPool.free_block_index_]
  /\ UNCHANGED <<bestBid, bestAsk, priceLevels, levels, levelPool, clientOrders, fatal>>

\* pool.alloc(v) ends in utils::ASSERT
PoolAllocAbort ==
  /\ ~fatal
  /\ nops < MaxPoolOps
  /\ nops' = nops + 1
  /\ ~PoolCanAlloc(chunkPool)
  /\ fatal' = TRUE
  /\ result' = [result EXCEPT !.op = "alloc", !.ptr = NULL]
  /\ UNCHANGED <<bookVars, fifo>>

\* pool.free(p) for a pointer the caller holds
PoolFreeCall(ptr) ==
  /\ ~fatal
  /\ nops < MaxPoolOps
  /\ nops' = nops + 1
  /\ ptr \in live
  /\ IF PoolCanFree(chunkPool, ptr)
     THEN /\ chunkPool' = PoolFree(chunkPool, ptr)
          /\ UNCHANGED fatal
     ELSE /\ fatal' = TRUE
          /\ UNCHANGED chunkPool
  /\ fifo' = DropKey(fifo, ptr)
  /\ result' = [op |-> "free", ptr |-> ptr, frees |-> result.frees + 1]
  /\ UNCHANGED <<bestBid, bestAsk, priceLevels, levels, levelPool, clientOrders, chunks>>

PoolNext ==
  \/ \E v \in 1 .. MaxQty : PoolAllocCall(v)
  \/ PoolAllocAbort
  \/ \E ptr \in 0 .. (ChunkPoolSize - 1) : PoolFreeCall(ptr)

SpecPool == PoolTestInit /\ [][PoolNext]_vars

\* the free list from block i: the blocks reached along next_free_block_
RECURSIVE FreeList(_, _, _)
FreeList(pool, i, fuel) ==
  IF i \notin DOMAIN pool.is_free_ \/ fuel = 0 THEN <<>>
  ELSE <<i>> \o FreeList(pool, pool.next_free_block_[i], fuel - 1)

\* the free list of the pool, walked at most one block past its capacity
PoolFreeList == FreeList(chunkPool, chunkPool.free_block_index_, PoolCapacity + 1)

\* the bookkeeping of the pool agrees with the pointers the caller holds
PoolConsistent ==
  /\ live = {i \in DOMAIN chunkPool.is_free_ : ~chunkPool.is_free_[i]}
  /\ \A ptr \in live : chunks[ptr] = fifo[ptr]
  /\ chunkPool.free_block_count_ = PoolCapacity - Cardinality(live)
  /\ {PoolFreeList[k] : k \in 1 .. Len(PoolFreeList)} = (DOMAIN chunkPool.is_free_) \ live
  /\ Len(PoolFreeList) = PoolCapacity - Cardinality(live)

(***************************************************************************)
(* C23  Pool slots are never shared: alloc never returns a slot that is    *)
(* allocated, a pointer keeps addressing its slot and value until it is    *)
(* freed, the free count is the capacity minus the live allocations, and   *)
(* the free list from its head holds exactly the free slots, each once.    *)
(***************************************************************************)
C23_PoolSlotsNeverShared ==
  [][/\ PoolConsistent
     /\ PoolConsistent'
     /\ \A v \in 1 .. MaxQty :
          PoolAllocCall(v) =>
            /\ result'.ptr \notin live
            /\ \A ptr \in live : chunks'[ptr] = chunks[ptr]
     /\ \A ptr \in 0 .. (ChunkPoolSize - 1) :
          PoolFreeCall(ptr) =>
            /\ ~fatal'
            /\ \A other \in live \ {ptr} : chunks'[other] = chunks[other]]_vars

\* an alloc has returned a slot that was freed before, next to a pointer
\* that has been held since before that free
C23_Witness ==
  /\ result.op = "alloc"
  /\ result.frees >= 1
  /\ Cardinality(live) >= 2
  /\ ~fatal

(***************************************************************************)
(* C24  Pool exhaustion fails hard: alloc on a pool whose slots are all    *)
(* allocated hands out nothing and ends in the fatal state, and alloc on a *)
(* pool with a free slot succeeds, after any sequence of alloc and free.   *)
(***************************************************************************)
C24_PoolExhaustionFailsHard ==
  [][/\ PoolAllocAbort =>
          /\ Cardinality(live) = PoolCapacity
          /\ fatal'
          /\ result'.ptr = NULL
          /\ UNCHANGED <<chunks, chunkPool, fifo>>
     /\ \A v \in 1 .. MaxQty :
          PoolAllocCall(v) =>
            /\ Cardinality(live) < PoolCapacity
            /\ ~fatal'
            /\ result'.ptr \in (DOMAIN chunkPool.is_free_) \ live]_vars

\* the pool was filled, partly freed, filled again, and the next alloc failed
C24_Witness ==
  /\ fatal
  /\ result.op = "alloc"
  /\ result.ptr = NULL
  /\ result.frees >= 1
  /\ Cardinality(live) = PoolCapacity

\* the valid slots of all chunks of the chunk allocator, as handles
ValidSlots ==
  {h \in [chunk_ : DOMAIN chunks, index_ : ChunkSlots] :
     /\ ~chunkPool.is_free_[h.chunk_]
     /\ h.index_ < chunks[h.chunk_].highWaterMark
     /\ chunks[h.chunk_].validityBitmap[h.index_]}

\* the valid slots that hold the order of entry e = <<clientId, orderId>>
SlotsHolding(e) ==
  {h \in ValidSlots : /\ OrderAt(chunks, h).clientId_ = e[1]
                      /\ OrderAt(chunks, h).orderId_ = e[2]}

\* the stored quantity of the resting order of entry e
StoredQty(e) == OrderAt(chunks, clientOrders[e[1]][e[2]].position_).qty_

(***************************************************************************)
(* C25  Between any two public operations every resting order occupies     *)
(* exactly one valid slot in exactly one chunk of exactly one price level  *)
(* and its stored quantity is > 0 (orders are added with a positive        *)
(* quantity); the stored quantity of a resting order never increases.      *)
(***************************************************************************)
C25_OneSlotPositiveQuantity ==
  [][/\ \A e \in LiveEntries' :
          /\ SlotsHolding(e)' = {clientOrders'[e[1]][e[2]].position_}
          /\ Cardinality({s \in RestingSlots' : s[2] \in SlotsHolding(e)'}) = 1
          /\ StoredQty(e)' > 0
          /\ StoredQty(e)' <= clientOrders'[e[1]][e[2]].qty_
     /\ \A e \in LiveEntries \cap LiveEntries' : StoredQty(e)' <= StoredQty(e)]_vars

\* a match has filled a resting order in part while another order rests in
\* the same level
C25_Witness ==
  /\ result.valid
  /\ \E e \in LiveEntries :
       /\ StoredQty(e) < clientOrders[e[1]][e[2]].qty_
       /\ StoredQty(e) > 0
       /\ \E f \in LiveEntries \ {e} :
            clientOrders[f[1]][f[2]].price_ = clientOrders[e[1]][e[2]].price_

\* the chunks of the queue under test, head first
QueueChain == ChunkChain(chunks, queue_.headChunk_, ChunkPoolSize)

\* the set bits of chunk c below its high-water mark
SetBitsBelowMark(c) ==
  {i \in ChunkSlots : chunks[c].validityBitmap[i] /\ i < chunks[c].highWaterMark}

RECURSIVE PopCount(_)
PopCount(chain) ==
  IF chain = <<>> THEN 0
  ELSE Cardinality(SetBitsBelowMark(Head(chain))) + PopCount(Tail(chain))

(***************************************************************************)
(* C26  Bitmap / live-count consistency: in every reachable state of a     *)
(* queue size() is the number of set validity bits below the high-water    *)
(* marks of its chunks, no bit at or above a high-water mark is set, and   *)
(* no bit below the head cursor in the head chunk is set.                  *)
(***************************************************************************)
C26_BitmapLiveCount ==
  /\ queue_.totalSize_ = PopCount(QueueChain)
  /\ \A k \in 1 .. Len(QueueChain) :
       \A i \in ChunkSlots :
         i >= chunks[QueueChain[k]].highWaterMark => ~chunks[QueueChain[k]].validityBitmap[i]
  /\ queue_.headChunk_ # NULL =>
       \A i \in ChunkSlots :
         i < queue_.headOrderIndex_ => ~chunks[queue_.headChunk_].validityBitmap[i]

\* the queue spans two chunks, the head cursor has moved past a removed
\* order, and an order behind the cursor has been cancelled
C26_Witness ==
  /\ Len(QueueChain) >= 2
  /\ queue_.headOrderIndex_ > 0
  /\ queue_.totalSize_ >= 1
  /\ \E h \in result.removed :
       /\ h.chunk_ = queue_.tailChunk_
       /\ ~chunks[h.chunk_].validityBitmap[h.index_]
  /\ chunks[queue_.headChunk_].validityBitmap[queue_.headOrderIndex_]

\* the chunks that are allocated from the chunk allocator
AllocatedChunks == {c \in DOMAIN chunks : ~chunkPool.is_free_[c]}

\* the links between the chunks and the ends of the queue under test
ChunkLinks ==
  <<[c \in DOMAIN chunks |-> <<chunks[c].next, chunks[c].prev>>],
    queue_.headChunk_, queue_.tailChunk_>>

(***************************************************************************)
(* C27  Chunk lifecycle: after construction a chunk is created only by a   *)
(* push that finds the tail chunk's high-water mark equal to the chunk     *)
(* size, and it is freed only by head advancement, when the head cursor    *)
(* crosses it; remove(handle) never frees or unlinks a chunk, even when it *)
(* clears the last valid slot of the chunk.                                *)
(***************************************************************************)
C27_ChunkLifecycle ==
  [][/\ AllocatedChunks' \ AllocatedChunks # {} =>
          /\ \E qty \in 1 .. MaxQty : QueuePush(qty)
          /\ chunks[queue_.tailChunk_].highWaterMark = ChunkSize
          /\ AllocatedChunks' \ AllocatedChunks = {queue_'.tailChunk_}
          /\ AllocatedChunks \subseteq AllocatedChunks'
     /\ AllocatedChunks \ AllocatedChunks' # {} =>
          /\ QueuePop \/ QueueFront
          /\ \A c \in AllocatedChunks \ AllocatedChunks' :
               /\ \E k \in 1 .. Len(QueueChain) : QueueChain[k] = c
               /\ c # queue_'.headChunk_
               /\ SetBitsBelowMark(c) = {}
          /\ AllocatedChunks' \subseteq AllocatedChunks
     /\ (QueueRemoveAgain \/ \E k \in 1 .. MaxQueueOps : QueueRemove(k)) =>
          /\ chunkPool' = chunkPool
          /\ ChunkLinks' = ChunkLinks]_vars

\* remove(handle) has cleared the last valid slot of a full chunk that is
\* not the tail chunk, and the chunk is still allocated and linked
C27_Witness ==
  /\ result.op = "remove"
  /\ result.handle.chunk_ # queue_.tailChunk_
  /\ result.handle.chunk_ \in AllocatedChunks
  /\ chunks[result.handle.chunk_].highWaterMark = ChunkSize
  /\ SetBitsBelowMark(result.handle.chunk_) = {}
  /\ \E k \in 1 .. Len(QueueChain) : QueueChain[k] = result.handle.chunk_
  /\ queue_.totalSize_ >= 1

\* the chunks linked into the queues of the active price levels
OwnedChunks ==
  UNION {{ChunkChain(chunks, levels[lv].orders.headChunk_, ChunkPoolSize)[k] :
            k \in 1 .. Len(ChunkChain(chunks, levels[lv].orders.headChunk_, ChunkPoolSize))} :
         lv \in ActiveLevels(BUY) \cup ActiveLevels(SELL)}

(***************************************************************************)
(* C28  Freeing releases owned storage: freeing a price level returns the  *)
(* chunks its queue still owns to the chunk pool, so after any sequence of *)
(* add, cancel and match the chunks allocated from the chunk pool are      *)
(* exactly the chunks linked into the queues of the active price levels.   *)
(***************************************************************************)
C28_NoChunkLeak == AllocatedChunks = OwnedChunks

\* addOrder(side, price) creates a level that is not better than the best
\* level of its side
InsertsBehindBest(side, price) ==
  /\ priceLevels[getPriceIndex(price)] = NULL
  /\ bestOf(Book, side) # NULL
  /\ ~isBetter([side_ |-> side, price_ |-> price], levels[bestOf(Book, side)])

\* the level at which the walk from B.next ends: the first level C behind the
\* best level B with L.isBetter(C) = outcome, and B when the walk returns to
\* B without finding one
WalkEndsAt(side, price, outcome) ==
  LET chain == SideChain(side)
      found == {k \in 2 .. Len(chain) :
                  isBetter([side_ |-> side, price_ |-> price], levels[chain[k]]) = outcome}
  IN IF found = {} THEN chain[1] ELSE chain[Min(found)]

\* the step has spliced level L immediately before level C
SplicedBefore(L, C) ==
  /\ levels'[L].next_ = C
  /\ levels'[C].prev_ = L
  /\ levels'[L].prev_ = levels[C].prev_
  /\ levels'[levels[C].prev_].next_ = L

(***************************************************************************)
(* C29  Price-level insertion position, as the code has it: a new level L  *)
(* that is not better than the best level B is spliced immediately before  *)
(* the first level C on the walk from B.next for which L.isBetter(C) is    *)
(* true, and before B, as the worst level, when the walk returns to B      *)
(* without finding one; the best pointer stays at B.                       *)
(***************************************************************************)
C29_InsertionPosition ==
  [][\A clientId \in Clients, clientOrderId \in OrderIds, side \in Sides,
        price \in Prices, quantity \in 1 .. MaxQty :
       AddOrder(clientId, clientOrderId, clientOrderId + 100, side, price, quantity)
       /\ InsertsBehindBest(side, price)
         => /\ SplicedBefore(levelPool.free_block_index_, WalkEndsAt(side, price, TRUE))
            /\ bestOf(Book, side)' = bestOf(Book, side)]_vars

(***************************************************************************)
(* C29 as stated: the walk from B.next ends at the first level C for which *)
(* L.isBetter(C) is false, and L is spliced immediately before that C.     *)
(***************************************************************************)
C29_InsertionPositionAsStated ==
  [][\A clientId \in Clients, clientOrderId \in OrderIds, side \in Sides,
        price \in Prices, quantity \in 1 .. MaxQty :
       AddOrder(clientId, clientOrderId, clientOrderId + 100, side, price, quantity)
       /\ InsertsBehindBest(side, price)
         => SplicedBefore(levelPool.free_block_index_, WalkEndsAt(side, price, FALSE))]_vars

\* the third addOrder has created a level between the best and the worst
\* level of its side
C29_Witness ==
  /\ nops = 3
  /\ ~result.valid
  /\ \E side \in Sides :
       /\ Len(SideChain(side)) = 3
       /\ levels[SideChain(side)[2]].orders.totalSize_ = 1
       /\ \E clientId \in Clients :
            /\ clientOrders[clientId][2].present
            /\ clientOrders[clientId][2].price_ = levels[SideChain(side)[2]].price_

\* every order that was queued has been removed or popped: the queue is
\* empty and its tail chunk has been written
Drained == empty(queue_) /\ queue_.tailChunk_ # NULL
             /\ chunks[queue_.tailChunk_].highWaterMark >= 1

\* the slot push writes: the high-water mark of the tail chunk, or index 0
\* of the block the allocator hands out next when the tail chunk is full
PushSlot ==
  IF chunks[queue_.tailChunk_].highWaterMark >= ChunkSize
  THEN [chunk_ |-> chunkPool.free_block_index_, index_ |-> 0]
  ELSE [chunk_ |-> queue_.tailChunk_, index_ |-> chunks[queue_.tailChunk_].highWaterMark]

C31_ConstFrontIsPure ==
  [][/\ frontConst(queue_, pool_)' = front(queue_, pool_)'.handle
     /\ (frontConst(queue_, pool_)' = NullHandle) <=> empty(queue_)'
     /\ QueueFrontConst =>
          /\ result'.handle = front(queue_, pool_).handle
          /\ queue_' = queue_
          /\ chunks' = chunks
          /\ chunkPool' = chunkPool]_vars

\* the const front() has returned an order of a later chunk while the head
\* still stands in a drained chunk, which the mutable front() would free
C31_Witness ==
  /\ result.op = "frontConst"
  /\ result.handle.chunk_ # NULL
  /\ result.handle.chunk_ # queue_.headChunk_
  /\ front(queue_, pool_).q.headChunk_ = result.handle.chunk_
  /\ front(queue_, pool_).mem.pool.is_free_[queue_.headChunk_]
  /\ ~chunkPool.is_free_[queue_.headChunk_]

(***************************************************************************)
(* The book and the stand-alone queue side by side: construction yields    *)
(* either an order book or the queue under test, and every later step is a *)
(* public call on what was constructed.  SpecWork is this state machine.   *)
(***************************************************************************)
\* an order book was constructed (result is a match result)
IsBook == "valid" \in DOMAIN result

\* the queue under test was constructed (result is the last queue call)
IsQueue == "op" \in DOMAIN result

WorkInit == Init \/ QueueInit

BookCall == IsBook /\ Next

QueueCall == IsQueue /\ QueueNext

WorkNext == BookCall \/ QueueCall

SpecWork == WorkInit /\ [][WorkNext]_vars

\* the iterations of the while loop of addPriceLevel, counted up to one more
\* than the capacity of the table of levels
RECURSIVE insertionWalkSteps(_, _, _, _, _, _)
insertionWalkSteps(lvls, newPriceLevel, best, currentPriceLevel, addAtTheEnd, steps) ==
  IF steps > MAX_PRICE_LEVELS THEN steps
  ELSE IF ~addAtTheEnd /\ ~isBetter(lvls[newPriceLevel], lvls[currentPriceLevel])
  THEN LET nxt == lvls[currentPriceLevel].next_
       IN insertionWalkSteps(lvls, newPriceLevel, best, nxt, nxt = best, steps + 1)
  ELSE steps

\* the iterations of the walk when addOrder(side, price) creates its level
WalkSteps(side, price) ==
  LET lv == levelPool.free_block_index_
      best == bestOf(Book, side)
      lvls1 == [levels EXCEPT ![lv] = [ZeroLevel EXCEPT !.side_ = side, !.price_ = price,
                                                        !.prev_ = lv, !.next_ = lv]]
  IN insertionWalkSteps(lvls1, lv, best, lvls1[best].next_, FALSE, 0)

\* the chunks that the outer loop of advanceHead examines, counted up to one
\* more than the capacity of the chunk allocator
RECURSIVE advanceHeadVisits(_, _, _)
advanceHeadVisits(q, chs, visits) ==
  IF q.headChunk_ = NULL \/ visits > ChunkPoolSize THEN visits
  ELSE
    LET ch == chs[q.headChunk_]
        found == nextValidBit(ch, q.headOrderIndex_)
    IN IF found < ChunkSize /\ found < ch.highWaterMark THEN visits + 1
       ELSE IF q.headChunk_ = q.tailChunk_ THEN visits + 1
       ELSE advanceHeadVisits([q EXCEPT !.headChunk_ = ch.next, !.headOrderIndex_ = 0],
                              chs, visits + 1)

\* the chunks that a call of advanceHead on q examines
HeadVisits(q) == IF empty(q) THEN 0 ELSE advanceHeadVisits(q, chunks, 0)

\* the queues that exist: the queue under test, or the queues of the active levels
Queues ==
  IF IsQueue THEN {queue_}
  ELSE {levels[lv].orders : lv \in ActiveLevels(BUY) \cup ActiveLevels(SELL)}

(***************************************************************************)
(* C32  Every public operation terminates within bounded work: in every    *)
(* reachable state the insertion walk of an addOrder that creates a level  *)
(* behind the best level of its side stops after at most as many           *)
(* iterations as the side has active levels, a match call has run at most  *)
(* MAX_MATCH_EVENTS iterations of its loop (one record each), and head     *)
(* advancement on every queue examines at most the chunks linked into that *)
(* queue.                                                                  *)
(***************************************************************************)
C32_BoundedWork ==
  /\ IsBook =>
       /\ \A side \in Sides, price \in Prices :
            InsertsBehindBest(side, price) /\ PoolCanAlloc(levelPool) =>
              WalkSteps(side, price) <= Cardinality(ActiveLevels(side))
       /\ result.valid => Len(result.matches_) <= MAX_MATCH_EVENTS
  /\ \A q \in Queues :
       HeadVisits(q) <= Len(ChunkChain(chunks, q.headChunk_, ChunkPoolSize))

\* a match call has stopped at the cap of its loop with liquidity left, and
\* an addOrder behind the remaining best level would walk the whole chain
C32_Witness ==
  /\ IsBook
  /\ result.valid
  /\ Len(result.matches_) = MAX_MATCH_EVENTS
  /\ result.overflow_
  /\ \E side \in Sides, price \in Prices :
       /\ InsertsBehindBest(side, price)
       /\ PoolCanAlloc(levelPool)
       /\ WalkSteps(side, price) = Cardinality(ActiveLevels(side))

\* head advancement on the queue under test would cross from a drained head
\* chunk into the next chunk
C32_WitnessChunkCrossing ==
  /\ IsQueue
  /\ HeadVisits(queue_) = 2
  /\ Len(QueueChain) = 2

\* the chunks that the step returns to the chunk allocator
FreedChunks == AllocatedChunks \ AllocatedChunks'

\* every handle of the reference list points into an allocated chunk that is
\* linked in the queue under test
HandlesInLinkedChunks ==
  \A k \in 1 .. Len(model) :
    /\ model[k].handle.chunk_ \in AllocatedChunks
    /\ \E j \in 1 .. Len(QueueChain) : QueueChain[j] = model[k].handle.chunk_

(***************************************************************************)
(* C33  Head advancement never frees a live order: in every queue state    *)
(* reachable by push, remove of a valid handle, pop and front, a chunk is  *)
(* freed only when none of its slots is valid, so every handle whose order *)
(* has not been removed or popped points into a chunk that is still        *)
(* allocated and still linked in the queue.                                *)
(***************************************************************************)
C33_NoLiveOrderFreed ==
  [][/\ \A c \in FreedChunks : \A i \in ChunkSlots : ~chunks[c].validityBitmap[i]
     /\ HandlesInLinkedChunks
     /\ HandlesInLinkedChunks']_vars

\* front() or pop() has just freed a drained head chunk while orders of a
\* later chunk are still queued
C33_Witness ==
  /\ result.op \in {"front", "pop"}
  /\ model # <<>>
  /\ queue_.headChunk_ # NULL
  /\ chunks[queue_.headChunk_].prev # NULL
  /\ chunks[queue_.headChunk_].prev \notin AllocatedChunks
  /\ \A k \in 1 .. Len(model) : model[k].handle.chunk_ \in AllocatedChunks

(***************************************************************************)
(* C34  Queue head and tail stay non-null under valid use: in every queue  *)
(* state reachable from construction by push, remove of the handle of a    *)
(* still-queued order, pop and front, the head and the tail chunk pointer  *)
(* are non-null and address allocated chunks, also when pop or remove has  *)
(* emptied the queue; so push finds a tail chunk to read, and front() of a *)
(* non-empty queue is not null.                                            *)
(***************************************************************************)
C34_HeadAndTailNonNull ==
  /\ queue_.headChunk_ # NULL
  /\ queue_.tailChunk_ # NULL
  /\ queue_.headChunk_ \in AllocatedChunks
  /\ queue_.tailChunk_ \in AllocatedChunks
  /\ chunks[queue_.tailChunk_].highWaterMark \in 0 .. ChunkSize
  /\ ~empty(queue_) =>
       /\ front(queue_, pool_).handle.chunk_ # NULL
       /\ frontConst(queue_, pool_).chunk_ # NULL

\* pop or remove has just emptied a queue that had grown to a second chunk
C34_Witness ==
  /\ result.op \in {"pop", "remove"}
  /\ empty(queue_)
  /\ model = <<>>
  /\ queue_.tailChunk_ # NULL
  /\ chunks[queue_.tailChunk_].prev # NULL
  /\ queue_.tailChunk_ \in AllocatedChunks

\* the levels of a side's chain, as a set
ChainLevels(side) == {SideChain(side)[k] : k \in 1 .. Len(SideChain(side))}

(***************************************************************************)
(* C35  The price chain is a well-formed circular doubly linked list:      *)
(* between any two public operations, every active level L has             *)
(* L.next.prev = L and L.prev.next = L with both neighbours active levels  *)
(* of L's side, a level that is alone on its side has prev = next =        *)
(* itself, and the bid chain and the ask chain share no level.             *)
(***************************************************************************)
C35_ChainWellFormed ==
  /\ \A side \in Sides :
       \A L \in ActiveLevels(side) :
         /\ levels[L].next_ \in ActiveLevels(side)
         /\ levels[L].prev_ \in ActiveLevels(side)
         /\ levels[levels[L].next_].prev_ = L
         /\ levels[levels[L].prev_].next_ = L
         /\ ActiveLevels(side) = {L} => levels[L].prev_ = L /\ levels[L].next_ = L
  /\ ChainLevels(BUY) \cap ChainLevels(SELL) = {}
  /\ ActiveLevels(BUY) \cap ActiveLevels(SELL) = {}

\* a level has been unlinked from between two others of its side, which are
\* now linked to each other in both directions
C35_Witness ==
  /\ nops = MaxOps
  /\ \E side \in Sides :
       /\ Cardinality(ActiveLevels(side)) = 2
       /\ \E L \in ActiveLevels(side) : levels[L].next_ # L /\ levels[levels[L].next_].next_ = L
       /\ \E f \in DOMAIN levels :
            /\ levelPool.is_free_[f]
            /\ levels[f].side_ = side
            /\ levels[f].next_ = NULL
            /\ \E L \in ActiveLevels(side) :
                 /\ Favourable(side, levels[L].price_, levels[f].price_)
                 /\ \E M \in ActiveLevels(side) :
                      Favourable(side, levels[f].price_, levels[M].price_)

\* the keys of the resting orders that the records of the step's match name
RecordKeys == {MatchedKey(result'.matches_[k]) : k \in 1 .. Len(result'.matches_)}

\* the step leaves the levels, the queues and the best pointer of a side alone
SideUntouched(side) ==
  /\ bestOf(Book, side)' = bestOf(Book, side)
  /\ ActiveLevels(side)' = ActiveLevels(side)
  /\ \A i \in DOMAIN priceLevels :
       priceLevels[i] \in ActiveLevels(side) => priceLevels'[i] = priceLevels[i]
  /\ \A L \in ActiveLevels(side) :
       /\ levels'[L] = levels[L]
       /\ ~levelPool'.is_free_[L]
       /\ LET chain == ChunkChain(chunks, levels[L].orders.headChunk_, ChunkPoolSize)
          IN \A k \in 1 .. Len(chain) :
               chunks'[chain[k]] = chunks[chain[k]] /\ chain[k] \in AllocatedChunks'

\* the step queues no order: no slot becomes valid, no high-water mark moves,
\* no chunk or level is allocated and no client entry appears
NothingQueued ==
  /\ \A c \in DOMAIN chunks :
       /\ chunks'[c].highWaterMark = chunks[c].highWaterMark
       /\ \A i \in ChunkSlots : chunks'[c].validityBitmap[i] => chunks[c].validityBitmap[i]
  /\ AllocatedChunks' \subseteq AllocatedChunks
  /\ \A side \in Sides : ActiveLevels(side)' \subseteq ActiveLevels(side)
  /\ LiveEntries' \subseteq LiveEntries

\* the step modifies or removes only resting orders of a side that its
\* records name
OnlyRecordedTouched(side) ==
  /\ \A e \in Clients \X OrderIds :
       clientOrders'[e[1]][e[2]] # clientOrders[e[1]][e[2]] =>
         e \in RecordKeys /\ clientOrders[e[1]][e[2]].side_ = side
  /\ \A e \in LiveEntries \ RecordKeys :
       /\ e \in LiveEntries'
       /\ SlotsHolding(e)' = SlotsHolding(e)
       /\ StoredQty(e)' = StoredQty(e)

\* the frame of the step's match call; selfMatch: the entry of the aggressor's
\* key may be cleared when a record reports the resting order of that key as
\* exhausted
MatchFrame(selfMatch) ==
  LET call == result'.call
      entry == clientOrders[call.clientId][call.orderId]
  IN /\ \A side \in Sides :
          side = call.side =>
            SideUntouched(side) /\ OnlyRecordedTouched(OppositeSide(side))
     /\ NothingQueued
     /\ \/ clientOrders'[call.clientId][call.orderId] = entry
        \/ /\ selfMatch
           /\ entry.present
           /\ entry.side_ = OppositeSide(call.side)
           /\ <<call.clientId, call.orderId>> \in FilledKeys(result'.matches_)
           /\ clientOrders'[call.clientId][call.orderId] = NullOrder

(***************************************************************************)
(* C36  match never rests the aggressor and never touches its own side, as *)
(* the code has it: for every match(client, id, side, price, qty) the      *)
(* levels, queues and best pointer of the aggressor's side are unchanged,  *)
(* no order is added to any queue, and only opposite-side orders that      *)
(* appear in the returned records are modified or removed.  The            *)
(* client-order entry for (client, id) is unchanged unless (client, id) is *)
(* the key of a resting order of the opposite side that the call fills     *)
(* completely: that entry is cleared like that of any other filled order.  *)
(***************************************************************************)
C36_MatchFrame == [][MatchCalled => MatchFrame(TRUE)]_vars

(***************************************************************************)
(* C36 as stated: the client-order entry for (client, id) is unchanged by  *)
(* every match(client, id, side, price, qty).                              *)
(***************************************************************************)
C36_MatchFrameAsStated == [][MatchCalled => MatchFrame(FALSE)]_vars

\* a match has traded against the opposite side while levels rest on the
\* aggressor's own side
C36_Witness ==
  /\ result.valid
  /\ Len(result.matches_) >= 1
  /\ ActiveLevels(result.call.side) # {}
  /\ bestOf(Book, result.call.side) # NULL
  /\ ~clientOrders[result.call.clientId][result.call.orderId].present

(***************************************************************************)
(* C37  Only the last record of a call can leave a resting remainder: in   *)
(* every match result each record except possibly the last has             *)
(* matchedOrderRemainingQty = 0 and its resting order is no longer in the  *)
(* book (no client entry, no valid queue slot), no resting order appears   *)
(* in two records of the call, and if the last record has                  *)
(* matchedOrderRemainingQty > 0 then remainingQuantity = 0.                *)
(***************************************************************************)
C37_OnlyLastRecordLeavesRemainder ==
  result.valid =>
    LET ms == result.matches_
    IN /\ \A k \in 1 .. (Len(ms) - 1) :
            /\ ms[k].matchedOrderRemainingQty_ = 0
            /\ ~clientOrders[MatchedKey(ms[k])[1]][MatchedKey(ms[k])[2]].present
            /\ SlotsHolding(MatchedKey(ms[k])) = {}
       /\ \A j, k \in 1 .. Len(ms) : j # k => MatchedKey(ms[j]) # MatchedKey(ms[k])
       /\ (ms # <<>> /\ ms[Len(ms)].matchedOrderRemainingQty_ > 0) =>
            result.remainingQuantity_ = 0

\* a call has filled one resting order and then part of the next
C37_Witness ==
  /\ result.valid
  /\ Len(result.matches_) = 2
  /\ result.matches_[1].matchedOrderRemainingQty_ = 0
  /\ result.matches_[2].matchedOrderRemainingQty_ > 0
  /\ result.remainingQuantity_ = 0
  /\ clientOrders[MatchedKey(result.matches_[2])[1]][MatchedKey(result.matches_[2])[2]].present

(***************************************************************************)
(* The book driven by a caller that matches before it adds: an order is    *)
(* first passed to match, match is called again with the residual while    *)
(* overflow is set, and addOrder is called only right after a match call   *)
(* of that order that returned overflow = false and a positive             *)
(* remainingQuantity, with that quantity, side and price.  Cancels come    *)
(* between orders.  The caller does not look at the side of the level at   *)
(* the order's price.  SpecProtocol is this state machine.                 *)
(***************************************************************************)
MaxProtocolOps == 9

\* the quantities of the caller's orders: a single unit, or enough to fill
\* MAX_MATCH_EVENTS + 1 resting units and leave a remainder
MaxProtocolQty == 4

ProtocolQuantities == {1, MaxProtocolQty}

\* the order id the caller gives its next order: the lowest id of the client
\* that is not resting
FreshOrderId(clientId) ==
  IF \E o \in OrderIds : ~clientOrders[clientId][o].present
  THEN Min({o \in OrderIds : ~clientOrders[clientId][o].present})
  ELSE MaxOrderId

\* the last call was a match of an order that left a remainder to rest
RemainderToAdd ==
  /\ result.valid
  /\ ~result.overflow_
  /\ result.remainingQuantity_ > 0
  /\ ~clientOrders[result.call.clientId][result.call.orderId].present

\* the caller is in the middle of an order: it has to call match again, or
\* to add the remainder
InFlight == result.valid /\ (result.overflow_ \/ RemainderToAdd)

\* the match call of the protocol and its bookkeeping
ProtocolCall(clientId, orderId, side, price, quantity) ==
  /\ ~fatal
  /\ nops < MaxProtocolOps
  /\ nops' = nops + 1
  /\ \E m \in {match(Book, clientId, orderId, side, price, quantity)} :
        /\ Install(m.b)
        /\ result' = [valid |-> TRUE,
                       call |-> Call(clientId, orderId, side, price, quantity),
                       matches_ |-> m.set.matches_,
                       remainingQuantity_ |-> m.set.remainingQuantity_,
                       overflow_ |-> m.set.overflow_]
        /\ fifo' = [i \in DOMAIN fifo |-> WithoutAll(fifo[i], FilledKeys(m.set.matches_))]
  /\ UNCHANGED fatal

\* a new order: its first match call
ProtocolMatch(clientId, side, price, quantity) ==
  /\ ~InFlight
  /\ ProtocolCall(clientId, FreshOrderId(clientId), side, price, quantity)

\* overflow was set: match is called again with the residual
ProtocolRematch ==
  /\ result.valid
  /\ result.overflow_
  /\ ProtocolCall(result.call.clientId, result.call.orderId, result.call.side,
                  result.call.price, result.remainingQuantity_)

ProtocolAdd ==
  /\ ~fatal
  /\ nops < MaxProtocolOps
  /\ nops' = nops + 1
  /\ RemainderToAdd
  /\ ~addOrderAborts(Book, result.call.price)
  /\ Install(addOrder(Book, result.call.clientId, result.call.orderId,
                      result.call.orderId + 100, result.call.side, result.call.price,
                      result.remainingQuantity_))
  /\ fifo' = [fifo EXCEPT ![getPriceIndex(result.call.price)] =
                Append(@, <<result.call.clientId, result.call.orderId>>)]
  /\ result' = NoResult
  /\ UNCHANGED fatal

\* the addOrder of the remainder ends in utils::ASSERT: a pool has no free block
ProtocolAddAbort ==
  /\ ~fatal
  /\ nops < MaxProtocolOps
  /\ nops' = nops + 1
  /\ RemainderToAdd
  /\ addOrderAborts(Book, result.call.price)
  /\ fatal' = TRUE
  /\ result' = NoResult
  /\ UNCHANGED <<bookVars, fifo>>

ProtocolCancel(clientId, orderId) ==
  /\ ~fatal
  /\ ~InFlight
  /\ nops < MaxProtocolOps
  /\ nops' = nops + 1
  /\ clientOrders[clientId][orderId].present
  /\ Install(removeOrder(Book, clientId, orderId))
  /\ fifo' = [fifo EXCEPT ![getPriceIndex(clientOrders[clientId][orderId].price_)] =
                Without(@, <<clientId, orderId>>)]
  /\ result' = NoResult
  /\ UNCHANGED fatal

ProtocolNext ==
  \/ \E clientId \in Clients, side \in Sides, price \in Prices,
        quantity \in ProtocolQuantities :
       ProtocolMatch(clientId, side, price, quantity)
  \/ ProtocolRematch
  \/ ProtocolAdd
  \/ ProtocolAddAbort
  \/ \E clientId \in Clients, orderId \in OrderIds : ProtocolCancel(clientId, orderId)

SpecProtocol == Init /\ [][ProtocolNext]_vars

(***************************************************************************)
(* C38  The book is never crossed when the caller matches before adding:   *)
(* if every addOrder(side, price, q) comes right after the match calls for *)
(* that side and price, repeated until overflow = false, and adds the      *)
(* positive final remainingQuantity, then between operations               *)
(* bestBid.price < bestAsk.price whenever both are non-null, and no price  *)
(* level holds orders added for both sides: every resting order rests in   *)
(* the level of its price, and that level is of the order's side.          *)
(***************************************************************************)
C38_NeverCrossed ==
  /\ (bestBid # NULL /\ bestAsk # NULL) => levels[bestBid].price_ < levels[bestAsk].price_
  /\ \A e \in LiveEntries :
       LET o == clientOrders[e[1]][e[2]]
           lv == priceLevels[getPriceIndex(o.price_)]
       IN /\ lv # NULL
          /\ levels[lv].price_ = o.price_
          /\ levels[lv].side_ = o.side_
          /\ SlotsHolding(e) = {o.position_}

\* the remainder of an order that traded has been added at the price at which
\* it traded, next to the other side's remaining best level
C38_Witness ==
  /\ ~result.valid
  /\ bestBid # NULL
  /\ bestAsk # NULL
  /\ levels[bestBid].price_ + 1 = levels[bestAsk].price_
  /\ \E e \in LiveEntries :
       /\ clientOrders[e[1]][e[2]].qty_ \notin ProtocolQuantities
       /\ clientOrders[e[1]][e[2]].price_ \in {levels[bestBid].price_, levels[bestAsk].price_}

\* match was called again after an overflow, and that call has left a
\* remainder for the caller to add
C38_WitnessAfterRematch ==
  /\ RemainderToAdd
  /\ result.call.quantity \notin ProtocolQuantities
  /\ Len(result.matches_) >= 1

(***************************************************************************)
(* models::OrderQueue (soft-delete variant, the one compiled when          *)
(* USE_BITMAP_QUEUE is not defined).  A queue is a = [q, mem] with its own *)
(* chunk allocator mem = [chunks, pool].                                   *)
(***************************************************************************)
ZeroChunkSoft ==
  [orders |-> [i \in ChunkSlots |->
                 [orderId_ |-> 0, qty_ |-> 0, clientId_ |-> 0, deleted_ |-> FALSE]],
   count |-> 0,
   next |-> NULL,
   prev |-> NULL]

allocateNewChunkSoft(a) ==
  LET c == a.mem.pool.free_block_index_
      fresh == [a.mem.chunks EXCEPT ![c] = ZeroChunkSoft]
      pool2 == PoolAlloc(a.mem.pool)
  IN IF a.q.headChunk_ = NULL
     THEN [q |-> [a.q EXCEPT !.headChunk_ = c, !.tailChunk_ = c],
           mem |-> [chunks |-> fresh, pool |-> pool2]]
     ELSE [q |-> [a.q EXCEPT !.tailChunk_ = c],
           mem |-> [chunks |-> [fresh EXCEPT ![a.q.tailChunk_].next = c,
                                             ![c].prev = a.q.tailChunk_],
                    pool |-> pool2]]

\* push has to allocate a chunk first
pushNeedsChunkSoft(a) == a.mem.chunks[a.q.tailChunk_].count >= ChunkSize

\* push(order): the queue afterwards and the handle returned
pushSoft(a, order) ==
  LET b == IF pushNeedsChunkSoft(a) THEN allocateNewChunkSoft(a) ELSE a
      t == b.q.tailChunk_
      index == b.mem.chunks[t].count
  IN [q |-> [b.q EXCEPT !.totalSize_ = @ + 1],
      mem |-> [b.mem EXCEPT !.chunks[t].orders[index] =
                               [orderId_ |-> order.orderId_, qty_ |-> order.qty_,
                                clientId_ |-> order.clientId_, deleted_ |-> FALSE],
                            !.chunks[t].count = @ + 1],
      handle |-> [chunk_ |-> t, index_ |-> index]]

removeSoft(a, handle) ==
  IF handle.chunk_ # NULL /\ ~a.mem.chunks[handle.chunk_].orders[handle.index_].deleted_
  THEN [q |-> [a.q EXCEPT !.totalSize_ = @ - 1],
        mem |-> [a.mem EXCEPT !.chunks[handle.chunk_].orders[handle.index_].deleted_ = TRUE]]
  ELSE [q |-> a.q, mem |-> a.mem]

\* advanceHead(): nothing on an empty queue (the size does not change while
\* the head advances, so the test is the same at every chunk); otherwise the
\* head moves to the first slot below count that is not deleted, freeing each
\* chunk it leaves
RECURSIVE advanceHeadSoft(_)
advanceHeadSoft(a) ==
  IF empty(a.q) \/ a.q.headChunk_ = NULL THEN a
  ELSE
    LET ch == a.mem.chunks[a.q.headChunk_]
        S == {i \in ChunkSlots :
                i >= a.q.headOrderIndex_ /\ i < ch.count /\ ~ch.orders[i].deleted_}
    IN IF S # {} THEN [a EXCEPT !.q.headOrderIndex_ = Min(S)]
       ELSE IF a.q.headChunk_ = a.q.tailChunk_
       THEN [q |-> [a.q EXCEPT !.headChunk_ = NULL, !.tailChunk_ = NULL,
                               !.headOrderIndex_ = 0],
             mem |-> [a.mem EXCEPT !.pool = PoolFree(a.mem.pool, a.q.headChunk_)]]
       ELSE advanceHeadSoft(
              [q |-> [a.q EXCEPT !.headChunk_ = ch.next, !.headOrderIndex_ = 0],
               mem |-> [a.mem EXCEPT !.pool = PoolFree(a.mem.pool, a.q.headChunk_)]])

\* front(): the queue after head advancement and the handle of the front order
frontSoft(a) ==
  LET b == advanceHeadSoft(a)
  IN [q |-> b.q, mem |-> b.mem,
      handle |-> IF empty(b.q) THEN NullHandle
                 ELSE [chunk_ |-> b.q.headChunk_, index_ |-> b.q.headOrderIndex_]]

popSoft(a) ==
  LET b == advanceHeadSoft(a)
  IN IF empty(b.q) THEN b
     ELSE [q |-> [b.q EXCEPT !.totalSize_ = @ - 1],
           mem |-> [b.mem EXCEPT
                      !.chunks[b.q.headChunk_].orders[b.q.headOrderIndex_].deleted_ = TRUE]]

\* last() const: the outcomes of the call, each [handle, returns].
\* currentIndex is a std::size_t, so currentIndex >= 0 always holds and the
\* scan never leaves the tail chunk: it returns the highest slot below count
\* that is not deleted.  When every such slot is deleted, currentIndex-- wraps
\* below 0 and orders[currentIndex] is read outside the array, which is
\* undefined: the call ends the process, or returns whatever address the scan
\* through the memory in front of the chunk stops at.
lastSoft(a) ==
  IF empty(a.q) THEN {[handle |-> NullHandle, returns |-> TRUE]}
  ELSE LET t == a.q.tailChunk_
           S == {i \in ChunkSlots :
                   i < a.mem.chunks[t].count /\ ~a.mem.chunks[t].orders[i].deleted_}
       IN IF S # {}
          THEN {[handle |-> [chunk_ |-> t, index_ |-> Max(S)], returns |-> TRUE]}
          ELSE {[handle |-> NullHandle, returns |-> FALSE]}
               \cup {[handle |-> h, returns |-> TRUE] :
                       h \in [chunk_ : DOMAIN a.mem.chunks, index_ : ChunkSlots]}

(***************************************************************************)
(* The two queues side by side.  The bitmap queue and its allocator are    *)
(* levels[0].orders, chunks and chunkPool as in the queue harness; the     *)
(* soft-delete queue and its allocator, of the same capacity, are fifo[1]. *)
(* Both get every call.  fifo[0] is the list of queued orders with the     *)
(* handle each queue issued for them; result is the last call with the     *)
(* handle each queue returned (handle: bitmap, soft: soft-delete) and      *)
(* whether each call returned.  SpecPair is this state machine.            *)
(***************************************************************************)
soft_ == fifo[1]

PairInit ==
  /\ bestBid = NULL
  /\ bestAsk = NULL
  /\ priceLevels = [i \in 0 .. (MAX_PRICE_LEVELS - 1) |-> NULL]
  /\ levelPool = PoolInit(MAX_PRICE_LEVELS)
  /\ clientOrders = [c \in Clients |-> [o \in OrderIds |-> NullOrder]]
  /\ \E n \in ChunkPoolSizes :
       \E nq \in {QueueNew([chunks |-> [i \in 0 .. (n - 1) |-> ZeroChunk],
                            pool |-> PoolInit(n)])} :
         /\ levels = [i \in 0 .. (MAX_PRICE_LEVELS - 1) |->
                        IF i = 0 THEN [ZeroLevel EXCEPT !.orders = nq.q] ELSE ZeroLevel]
         /\ chunks = nq.mem.chunks
         /\ chunkPool = nq.mem.pool
         /\ fifo = [i \in 0 .. (MAX_PRICE_LEVELS - 1) |->
                      IF i = 1
                      THEN allocateNewChunkSoft(
                             [q |-> ZeroQueue,
                              mem |-> [chunks |-> [j \in 0 .. (n - 1) |-> ZeroChunkSoft],
                                       pool |-> PoolInit(n)]])
                      ELSE <<>>]
  /\ result = [op |-> "new", handle |-> NullHandle, soft |-> NullHandle,
               returns |-> <<TRUE, TRUE>>]
  /\ nops = 0
  /\ fatal = FALSE

\* push ends in utils::ASSERT in the bitmap queue, in the soft-delete queue
PairPushAborts ==
  <<pushNeedsChunk(queue_, pool_) /\ ~PoolCanAlloc(chunkPool),
    pushNeedsChunkSoft(soft_) /\ ~PoolCanAlloc(soft_.mem.pool)>>

\* handles.push_back(q.push(order)) on both queues: the i-th push carries
\* order id i
PairPush(qty) ==
  /\ ~fatal
  /\ nops < MaxQueueOps
  /\ nops' = nops + 1
  /\ PairPushAborts = <<FALSE, FALSE>>
  /\ \E order \in {[orderId_ |-> nops, qty_ |-> qty, clientId_ |-> 0]} :
       \E pu \in {push(queue_, pool_, order)} :
         \E ps \in {pushSoft(soft_, order)} :
           /\ QueueInstall(pu)
           /\ fifo' = [fifo EXCEPT
                         ![0] = Append(@, [order |-> order, handle |-> pu.handle,
                                           soft |-> ps.handle]),
                         ![1] = [q |-> ps.q, mem |-> ps.mem]]
           /\ result' = [op |-> "push", handle |-> pu.handle, soft |-> ps.handle,
                         returns |-> <<TRUE, TRUE>>]
  /\ UNCHANGED fatal

\* the tail chunk is full and the pool has no free block
PairPushAbort ==
  /\ ~fatal
  /\ nops < MaxQueueOps
  /\ nops' = nops + 1
  /\ PairPushAborts # <<FALSE, FALSE>>
  /\ fatal' = TRUE
  /\ result' = [op |-> "push", handle |-> NullHandle, soft |-> NullHandle,
                returns |-> <<~PairPushAborts[1], ~PairPushAborts[2]>>]
  /\ UNCHANGED <<bookVars, fifo>>

\* q.remove(handles[k]) on both queues, for an order that is still queued
PairRemove(k) ==
  /\ ~fatal
  /\ nops < MaxQueueOps
  /\ nops' = nops + 1
  /\ k \in 1 .. Len(model)
  /\ QueueInstall(remove(queue_, pool_, model[k].handle))
  /\ fifo' = [fifo EXCEPT ![0] = RemoveAt(@, k),
                          ![1] = removeSoft(soft_, model[k].soft)]
  /\ result' = [op |-> "remove", handle |-> model[k].handle, soft |-> model[k].soft,
                returns |-> <<TRUE, TRUE>>]
  /\ UNCHANGED fatal

\* q.pop() on both queues
PairPop ==
  /\ ~fatal
  /\ nops < MaxQueueOps
  /\ nops' = nops + 1
  /\ QueueInstall(pop(queue_, pool_))
  /\ fifo' = [fifo EXCEPT ![0] = IF @ = <<>> THEN <<>> ELSE Tail(@),
                          ![1] = popSoft(soft_)]
  /\ result' = [op |-> "pop", handle |-> front(queue_, pool_).handle,
                soft |-> frontSoft(soft_).handle, returns |-> <<TRUE, TRUE>>]
  /\ UNCHANGED fatal

\* q.front() on both queues
PairFront ==
  /\ ~fatal
  /\ nops < MaxQueueOps
  /\ nops' = nops + 1
  /\ \E f \in {front(queue_, pool_)} :
       \E fs \in {frontSoft(soft_)} :
         /\ QueueInstall(f)
         /\ fifo' = [fifo EXCEPT ![1] = [q |-> fs.q, mem |-> fs.mem]]
         /\ result' = [op |-> "front", handle |-> f.handle, soft |-> fs.handle,
                       returns |-> <<TRUE, TRUE>>]
  /\ UNCHANGED fatal

\* q.last() on both queues; the process ends when either call does not return
PairLast ==
  /\ ~fatal
  /\ nops < MaxQueueOps
  /\ nops' = nops + 1
  /\ \E shiftWraps \in BOOLEAN :
       \E l \in {last(queue_, pool_, shiftWraps)} :
         \E ls \in lastSoft(soft_) :
           /\ result' = [op |-> "last", handle |-> l.handle, soft |-> ls.handle,
                         returns |-> <<l.returns, ls.returns>>]
           /\ fatal' = ~(l.returns /\ ls.returns)
  /\ UNCHANGED <<bookVars, fifo>>

PairNext ==
  \/ \E qty \in 1 .. MaxQty : PairPush(qty)
  \/ PairPushAbort
  \/ \E k \in 1 .. MaxQueueOps : PairRemove(k)
  \/ PairPop
  \/ PairFront
  \/ PairLast

SpecPair == PairInit /\ [][PairNext]_vars

\* the BasicOrder behind a handle of the soft-delete queue, without deleted_
OrderAtSoft(h) ==
  LET o == soft_.mem.chunks[h.chunk_].orders[h.index_]
  IN [orderId_ |-> o.orderId_, qty_ |-> o.qty_, clientId_ |-> o.clientId_]

\* what a caller can observe of the two queues after a call is the same:
\* both calls returned or neither did, the handles name the same chunk and
\* slot and address equal orders, size() and empty() agree, and the two
\* allocators have handed out and taken back the same chunks
PairAgrees ==
  /\ result.returns[1] = result.returns[2]
  /\ result.handle = result.soft
  /\ result.handle # NullHandle => OrderAt(chunks, result.handle) = OrderAtSoft(result.soft)
  /\ queue_.totalSize_ = soft_.q.totalSize_
  /\ chunkPool = soft_.mem.pool
  /\ queue_.headChunk_ = soft_.q.headChunk_
  /\ queue_.tailChunk_ = soft_.q.tailChunk_

(***************************************************************************)
(* C39  The two selectable OrderQueue implementations are observationally  *)
(* equivalent: for every sequence of push, remove (of a still-queued       *)
(* order), pop, front and last, the bitmap queue and the soft-delete queue *)
(* return the same orders from front() and last(), the same size() and     *)
(* empty(), issue handles with the same slot indices, and allocate and     *)
(* free chunks at the same steps.                                          *)
(***************************************************************************)
C39_QueuesEquivalent == PairAgrees

\* the part of C39 that does hold: the queues agree after every call but last()
C39_EquivalentApartFromLast == result.op # "last" => PairAgrees

\* soft-delete last() has been called with the tail chunk holding deleted
\* orders only while an earlier chunk still holds a queued one
C39_SoftLastOutOfBounds ==
  /\ result.op = "last"
  /\ model # <<>>
  /\ \A i \in ChunkSlots :
       i < soft_.mem.chunks[soft_.q.tailChunk_].count
         => soft_.mem.chunks[soft_.q.tailChunk_].orders[i].deleted_

====
